---- MODULE Spec2Model ----
(***************************************************************************)
(* MetalMatMulCompiler::compile (src/compilers/metal/fp16/matmul.rs): the   *)
(* rewrite of Mul -> SumReduce idioms into MatVec / MatVec1Row / Matmul     *)
(* kernel nodes, over a graph of operator nodes and tracker-carrying edges. *)
(***************************************************************************)
EXTENDS Integers, Sequences, FiniteSets, TLC

\* Largest logical dimension of a tensor axis in the explored graphs.
MaxDim == 2

\* Number of user handles passed to compile as `remap`.
NumHandles == 1

Min2(a, b) == IF a < b THEN a ELSE b

RECURSIVE Prod(_)
Prod(s) == IF s = <<>> THEN 1 ELSE Head(s) * Prod(Tail(s))

\* s without its element at 1-based position p
DropAt(s, p) == [j \in 1..(Len(s) - 1) |-> IF j < p THEN s[j] ELSE s[j + 1]]

\* s with x inserted so that it has 1-based position p
InsertAt(s, p, x) ==
    [j \in 1..(Len(s) + 1) |-> IF j < p THEN s[j] ELSE IF j = p THEN x ELSE s[j - 1]]

(***************************************************************************)
(* ShapeTracker.  All fields are sequences in logical axis order; indexes   *)
(* holds the 0-based physical axis of each logical axis.                    *)
(***************************************************************************)
\* the upper bound of a window that cuts nothing off: above every extent
NoUpper == 2147483647

DefaultMask == <<0, NoUpper>>

DefaultPad == <<0, 0>>

\* a fresh tracker over the given dimensions
NewTracker(ds) ==
    [dims    |-> ds,
     indexes |-> [j \in 1..Len(ds) |-> j - 1],
     fake    |-> [j \in 1..Len(ds) |-> FALSE],
     mask    |-> [j \in 1..Len(ds) |-> DefaultMask],
     padding |-> [j \in 1..Len(ds) |-> DefaultPad]]

len(st) == Len(st.dims)

\* logical extent of each axis: padded extent clipped by the slice window
shape(st) ==
    [j \in 1..len(st) |->
        Min2(st.dims[j] + st.padding[j][1] + st.padding[j][2], st.mask[j][2])
            - st.mask[j][1]]

is_sliced(st) == \E j \in 1..len(st) : st.mask[j] # DefaultMask

is_padded(st) == \E j \in 1..len(st) : st.padding[j] # DefaultPad

is_contiguous(st) ==
    /\ \A j \in 1..len(st) : st.indexes[j] = j - 1
    /\ \A j \in 1..len(st) : ~st.fake[j]
    /\ ~is_sliced(st)
    /\ ~is_padded(st)

\* axes: sequence of 0-based logical axes; new axis j is old axis axes[j]
permute(st, axes) ==
    [dims    |-> [j \in 1..Len(axes) |-> st.dims[axes[j] + 1]],
     indexes |-> [j \in 1..Len(axes) |-> st.indexes[axes[j] + 1]],
     fake    |-> [j \in 1..Len(axes) |-> st.fake[axes[j] + 1]],
     mask    |-> [j \in 1..Len(axes) |-> st.mask[axes[j] + 1]],
     padding |-> [j \in 1..Len(axes) |-> st.padding[axes[j] + 1]]]

\* remove_dim is defined on a unit axis or a fake axis only
remove_dim_ok(st, i) ==
    /\ i + 1 \in 1..len(st)
    /\ (st.fake[i + 1] \/ shape(st)[i + 1] = 1)

\* i: 0-based logical axis; the physical axes above the removed one close up
remove_dim(st, i) ==
    LET p == st.indexes[i + 1]
        ix == DropAt(st.indexes, i + 1)
    IN  [dims    |-> DropAt(st.dims, i + 1),
         indexes |-> [j \in 1..Len(ix) |-> IF ix[j] > p THEN ix[j] - 1 ELSE ix[j]],
         fake    |-> DropAt(st.fake, i + 1),
         mask    |-> DropAt(st.mask, i + 1),
         padding |-> DropAt(st.padding, i + 1)]

\* a fake axis of extent d at 0-based logical position i; it takes the next
\* physical axis number
expand(st, i, d) ==
    [dims    |-> InsertAt(st.dims, i + 1, d),
     indexes |-> InsertAt(st.indexes, i + 1, len(st)),
     fake    |-> InsertAt(st.fake, i + 1, TRUE),
     mask    |-> InsertAt(st.mask, i + 1, DefaultMask),
     padding |-> InsertAt(st.padding, i + 1, DefaultPad)]

\* slice window [lo, hi) on 0-based logical axis i
slice(st, i, lo, hi) == [st EXCEPT !.mask[i + 1] = <<lo, hi>>]

\* zero padding (before, after) on 0-based logical axis i
pad(st, i, b, a) == [st EXCEPT !.padding[i + 1] = <<b, a>>]

\* fresh tracker over the logical shape: identity permutation, no mask, no padding
contiguous(st) == NewTracker(shape(st))

\* product of the stored extents of the axes in S
RECURSIVE ProdDims(_, _)
ProdDims(st, S) ==
    IF S = {} THEN 1
    ELSE LET j == CHOOSE x \in S : TRUE IN st.dims[j] * ProdDims(st, S \ {j})

\* elements between consecutive positions of axis j in the buffer: the stored
\* axes behind it in physical order; a fake axis has no storage
stride(st, j) ==
    ProdDims(st, {i \in 1..len(st) : ~st.fake[i] /\ st.indexes[i] > st.indexes[j]})

\* position along stored axis j of logical position x: the slice window starts
\* at its lower bound, the padding before the axis holds no stored element
coord(st, j, x) == x + st.mask[j][1] - st.padding[j][1]

RECURSIVE Dot(_, _, _)
Dot(st, ix, j) ==
    IF j = 0 THEN 0
    ELSE (IF st.fake[j] THEN 0 ELSE coord(st, j, ix[j]) * stride(st, j)) + Dot(st, ix, j - 1)

\* the buffer offset the view reads at the 0-based logical index ix, or -1 where
\* the view yields a padding zero
Read(st, ix) ==
    IF \E j \in 1..len(st) :
          ~st.fake[j] /\ (coord(st, j, ix[j]) < 0 \/ coord(st, j, ix[j]) >= st.dims[j])
    THEN -1
    ELSE Dot(st, ix, len(st))

\* the 0-based index over extents shp at row-major position p
Unflatten(shp, p) ==
    [j \in 1..Len(shp) |-> (p \div Prod(SubSeq(shp, j + 1, Len(shp)))) % shp[j]]

(***************************************************************************)
(* Graph: nodes maps each live node id to its operator, edges is the set of  *)
(* dataflow edges (producer output `out` feeds consumer input slot `inp`     *)
(* through the view `st`), free is the stack of vacated node ids.            *)
(***************************************************************************)
Op(ty, dim, fn) == [ty |-> ty, dim |-> dim, fn |-> fn]

Ids(g) == DOMAIN g.nodes

OutEdges(g, n) == {e \in g.edges : e.src = n}

InEdges(g, n) == {e \in g.edges : e.dst = n}

\* the id the next added node gets: the most recently vacated one, else a new one
NewId(g) == IF g.free # <<>> THEN Head(g.free) ELSE Cardinality(Ids(g))

\* add_op(op).input(src, out, st)... .finish(); inputs: sequence of <<src, out, st>>
add_op(g, op, inputs) ==
    LET id == NewId(g)
    IN  [g  |-> [nodes |-> [n \in Ids(g) \cup {id} |-> IF n = id THEN op ELSE g.nodes[n]],
                 edges |-> g.edges \cup
                           {[src |-> inputs[k][1], out |-> inputs[k][2], dst |-> id,
                             inp |-> k - 1, st |-> inputs[k][3]] : k \in 1..Len(inputs)},
                 free  |-> IF g.free # <<>> THEN Tail(g.free) ELSE g.free],
         id |-> id]

\* removes the node and every edge incident to it; a missing node is a no-op
remove_node(g, n) ==
    IF n \notin Ids(g) THEN g
    ELSE [nodes |-> [m \in Ids(g) \ {n} |-> g.nodes[m]],
          edges |-> {e \in g.edges : e.src # n /\ e.dst # n},
          free  |-> <<n>> \o g.free]

\* the incoming edges of n in input-slot order, as <<src, out, st>>
get_sources(g, n) ==
    [k \in 1..Cardinality(InEdges(g, n)) |->
        LET e == CHOOSE e \in InEdges(g, n) : e.inp = k - 1
        IN  <<e.src, e.out, e.st>>]

\* every outgoing edge of `from` becomes an outgoing edge of `to`
move_outgoing_edge(g, from, to) ==
    [g EXCEPT !.edges = (g.edges \ OutEdges(g, from))
                           \cup {[e EXCEPT !.src = to] : e \in OutEdges(g, from)}]

\* refs = [remap, no_delete, to_retrieve]; every occurrence of src becomes trg
move_references(refs, src, trg) ==
    [remap       |-> [h \in DOMAIN refs.remap |->
                         IF refs.remap[h] = src THEN trg ELSE refs.remap[h]],
     no_delete   |-> IF src \in refs.no_delete
                     THEN (refs.no_delete \ {src}) \cup {trg} ELSE refs.no_delete,
     to_retrieve |-> IF src \in refs.to_retrieve
                     THEN (refs.to_retrieve \ {src}) \cup {trg} ELSE refs.to_retrieve]

(***************************************************************************)
(* Selector patterns.  A shape entry is a constant or a named symbol, a     *)
(* fake entry is "T" (Some(true)), "F" (Some(false)) or "_" (None).         *)
(***************************************************************************)
Const(n) == [sym |-> "", val |-> n]

Sym(c) == [sym |-> c, val |-> 0]

\* positional match of the input trackers against the shape patterns; a symbol
\* stands for one dimension wherever it occurs
MatchShapes(shapes, sts) ==
    /\ Len(shapes) = Len(sts)
    /\ \A i \in 1..Len(shapes) : Len(shapes[i]) = len(sts[i])
    /\ \E shp \in {[i \in 1..Len(sts) |-> shape(sts[i])]} :
       \E pos \in {{<<i, j>> \in (1..Len(shapes)) \X (1..4) : j <= Len(shapes[i])}} :
           /\ \A x \in pos :
                 shapes[x[1]][x[2]].sym = "" => shp[x[1]][x[2]] = shapes[x[1]][x[2]].val
           /\ \A x \in pos, y \in pos :
                 (shapes[x[1]][x[2]].sym # "" /\ shapes[x[1]][x[2]].sym = shapes[y[1]][y[2]].sym)
                    => shp[x[1]][x[2]] = shp[y[1]][y[2]]

MatchFakes(fakes, sts) ==
    /\ Len(fakes) = Len(sts)
    /\ \A i \in 1..Len(fakes) : Len(fakes[i]) = len(sts[i])
    /\ \A i \in 1..Len(fakes) : \A j \in 1..Len(fakes[i]) :
          \/ fakes[i][j] = "_"
          \/ (fakes[i][j] = "T" /\ sts[i].fake[j])
          \/ (fakes[i][j] = "F" /\ ~sts[i].fake[j])

\* SelectOp::new().ty::<MetalMul>().shapes(..).fakes(..) on node n
SelectMul(g, pat, n) ==
    /\ g.nodes[n].ty = "Mul"
    /\ \E srcs \in {get_sources(g, n)} :
       \E sts \in {[k \in 1..Len(srcs) |-> srcs[k][3]]} :
           /\ MatchShapes(pat.shapes, sts)
           /\ MatchFakes(pat.fakes, sts)

\* a check closure that accepts a MetalSumReduce along any axis
SelectSumReduce_anydim(g, pat, n) == g.nodes[n].ty = "SumReduce"

\* the check closure of the second selector: a MetalSumReduce along pat.dim
SelectSumReduce(g, pat, n) == g.nodes[n].ty = "SumReduce" /\ g.nodes[n].dim = pat.dim

\* every <<mul, sum_reduce>> in the live graph that the pattern selects: a direct
\* edge from a node the first selector accepts to a node the second accepts
Matches(g, pat) ==
    {m \in {<<e.src, e.dst>> : e \in g.edges} :
        SelectMul(g, pat, m[1]) /\ SelectSumReduce(g, pat, m[2])}

vecmat_pattern ==
    [shapes |-> << <<Const(1), Sym("N"), Sym("M")>>, <<Const(1), Sym("N"), Sym("M")>> >>,
     fakes  |-> << <<"_", "T", "F">>, <<"T", "F", "F">> >>,
     dim    |-> 2]

batch_vecmat_pattern ==
    [shapes |-> << <<Const(1), Const(1), Sym("N"), Sym("M")>>,
                   <<Const(1), Const(1), Sym("N"), Sym("M")>> >>,
     fakes  |-> << <<"_", "_", "T", "F">>, <<"_", "T", "F", "F">> >>,
     dim    |-> 3]

single_searcher ==
    [shapes |-> << <<Sym("M"), Sym("N"), Sym("K")>>, <<Sym("M"), Sym("N"), Sym("K")>> >>,
     fakes  |-> << <<"F", "T", "F">>, <<"T", "F", "F">> >>,
     dim    |-> 2]

batch_searcher ==
    [shapes |-> << <<Sym("D"), Sym("A"), Sym("C"), Sym("B")>>,
                   <<Sym("D"), Sym("A"), Sym("C"), Sym("B")>> >>,
     fakes  |-> << <<"F", "F", "T", "F">>, <<"T", "T", "F", "F">> >>,
     dim    |-> 3]

Pattern(s) ==
    CASE s = "s1" -> vecmat_pattern
      [] s = "s2" -> batch_vecmat_pattern
      [] s = "single" -> single_searcher
      [] s = "batch" -> batch_searcher

(***************************************************************************)
(* The body of the GEMV loop (vecmat and batch vecmat matches).             *)
(***************************************************************************)
\* Undo expansions and permute: Src1 becomes [M], Src2 becomes [N, M] permuted
GemvShapes(g, mul) ==
    LET srcs == get_sources(g, mul)
        a0 == srcs[1][3]
        b0 == srcs[2][3]
        a1 == IF Len(a0.dims) = 4 THEN remove_dim(a0, 2) ELSE a0
        b1 == IF Len(b0.dims) = 4 THEN remove_dim(b0, 1) ELSE b0
        a2 == remove_dim(a1, 1)
    IN  [src1 |-> srcs[1][1], src1_shape |-> remove_dim(a2, 0),
         src2 |-> srcs[2][1], src2_shape |-> permute(remove_dim(b1, 0), <<1, 0>>),
         rm_ok |-> /\ (Len(a0.dims) = 4 => remove_dim_ok(a0, 2))
                   /\ (Len(b0.dims) = 4 => remove_dim_ok(b0, 1))
                   /\ remove_dim_ok(a1, 1) /\ remove_dim_ok(a2, 0)
                   /\ remove_dim_ok(b1, 0)]

\* whether src2 of the GEMV rewrite goes through a MetalContiguous copy
GemvSrc2NeedsContiguous(src2_shape) == is_sliced(src2_shape) \/ is_padded(src2_shape)

\* a choice that takes the strided kernel for the contiguous matrix
GemvUsesMatVec1Row_inverted(src2_shape) == is_contiguous(src2_shape)

\* whether the strided MatVec1Row kernel is emitted instead of MatVec
GemvUsesMatVec1Row(src2_shape) == ~is_contiguous(src2_shape)

GemvFunctionName(src2_shape) ==
    "gemv_" \o (IF is_contiguous(src2_shape) THEN "t_" ELSE "") \o "float16_bm8_bn32_tm4_tn4"

\* a copy that takes over every reader of src
ViaContiguous_moved(g, src, st, needed) ==
    IF needed
    THEN [g |-> [add_op(g, Op("Contiguous", -1, ""), << <<src, 0, st>> >>).g
                    EXCEPT !.edges = {IF e.src = src /\ e.dst # NewId(g)
                                      THEN [e EXCEPT !.src = NewId(g)] ELSE e : e \in @}],
          contig |-> NewId(g), src |-> NewId(g), st |-> contiguous(st)]
    ELSE [g |-> g, contig |-> -1, src |-> src, st |-> st]

\* the operand as the kernel gets it: through a new MetalContiguous node reading
\* src through st when `needed`, else src itself
ViaContiguous(g, src, st, needed) ==
    IF needed
    THEN [g |-> add_op(g, Op("Contiguous", -1, ""), << <<src, 0, st>> >>).g,
          contig |-> NewId(g), src |-> NewId(g), st |-> contiguous(st)]
    ELSE [g |-> g, contig |-> -1, src |-> src, st |-> st]

\* a kernel node that takes the operands in the other order
Emit_swapped(g, op, sh, a, b) ==
    [g |-> add_op(g, op, << <<b.src, 0, b.st>>, <<a.src, 0, a.st>> >>).g,
     matmul_op |-> NewId(g), op |-> op, contig1 |-> a.contig, contig2 |-> b.contig,
     undone1 |-> sh.src1_shape, undone2 |-> sh.src2_shape,
     src1_shape |-> a.st, src2_shape |-> b.st, rm_ok |-> sh.rm_ok]

\* the kernel node `op` reading operands a and b, added to graph g
Emit(g, op, sh, a, b) ==
    [g |-> add_op(g, op, << <<a.src, 0, a.st>>, <<b.src, 0, b.st>> >>).g,
     matmul_op |-> NewId(g), op |-> op, contig1 |-> a.contig, contig2 |-> b.contig,
     undone1 |-> sh.src1_shape, undone2 |-> sh.src2_shape,
     src1_shape |-> a.st, src2_shape |-> b.st, rm_ok |-> sh.rm_ok]

\* the kernel of the GEMV rewrite for the final src2 tracker
GemvOp(src2_shape) ==
    IF GemvUsesMatVec1Row(src2_shape)
    THEN Op("MatVec1Row", -1, "matvec")
    ELSE Op("MatVec", -1, GemvFunctionName(src2_shape))

GemvEmit(sh, b) ==
    Emit(b.g, GemvOp(b.st), sh, [contig |-> -1, src |-> sh.src1, st |-> sh.src1_shape], b)

\* the copy of src2 when needed, then the kernel node; the one result, as a set
GemvContiguous(g, sh) ==
    {GemvEmit(sh, b) : b \in {ViaContiguous(g, sh.src2, sh.src2_shape,
                                             GemvSrc2NeedsContiguous(sh.src2_shape))}}

\* inserts the Contiguous copy of src2 when needed, then the kernel node: the
\* set of the one record of what was inserted
GemvInsert(g, mul) == UNION {GemvContiguous(g, sh) : sh \in {GemvShapes(g, mul)}}

(***************************************************************************)
(* The body of the GEMM loop (single and batch matches).                    *)
(***************************************************************************)
GemmShapes(g, mul) ==
    LET srcs == get_sources(g, mul)
        a0 == srcs[1][3]
        b0 == srcs[2][3]
        ax == IF len(a0) = 4 THEN 2 ELSE 1
        b1 == IF len(b0) = 4 THEN remove_dim(b0, 1) ELSE b0
    IN  [src1 |-> srcs[1][1], src1_shape |-> remove_dim(a0, ax),
         src2 |-> srcs[2][1], src2_shape |-> permute(remove_dim(b1, 0), <<1, 0>>),
         rm_ok |-> /\ remove_dim_ok(a0, ax)
                   /\ (len(b0) = 4 => remove_dim_ok(b0, 1))
                   /\ remove_dim_ok(b1, 0)]

\* a test that looks for slices and padding only
GemmSrc1NeedsContiguous_nobatch(src1_shape) ==
    is_sliced(src1_shape) \/ is_padded(src1_shape)

GemmSrc1NeedsContiguous(src1_shape) ==
    \/ (len(src1_shape) = 3 /\ src1_shape.indexes[1] # 0)
    \/ is_sliced(src1_shape)
    \/ is_padded(src1_shape)

GemmSrc2NeedsContiguous(src2_shape) == is_sliced(src2_shape) \/ is_padded(src2_shape)

\* a name whose two letters are taken from the wrong operands
GemmFunctionName_swapped(src1_shape, src2_shape) ==
    "gemm_" \o (IF is_contiguous(src2_shape) THEN "n" ELSE "t")
            \o (IF is_contiguous(src1_shape) THEN "n" ELSE "t")
            \o "_float16_float16_bm32_bn32_bk16_wm2_wn2_MN_naligned_K_taligned"

GemmFunctionName(src1_shape, src2_shape) ==
    "gemm_" \o (IF is_contiguous(src1_shape) THEN "n" ELSE "t")
            \o (IF is_contiguous(src2_shape) THEN "n" ELSE "t")
            \o "_float16_float16_bm32_bn32_bk16_wm2_wn2_MN_naligned_K_taligned"

GemmOp(src1_shape, src2_shape) == Op("Matmul", -1, GemmFunctionName(src1_shape, src2_shape))

GemmEmit(sh, a, b) == Emit(b.g, GemmOp(a.st, b.st), sh, a, b)

\* the copy of src2 when needed, then the Matmul node; the one result, as a set
GemmContiguous2(sh, a) ==
    {GemmEmit(sh, a, b) : b \in {ViaContiguous(a.g, sh.src2, sh.src2_shape,
                                                GemmSrc2NeedsContiguous(sh.src2_shape))}}

\* the copy of src1 when needed, then the rest
GemmContiguous1(g, sh) ==
    UNION {GemmContiguous2(sh, a) : a \in {ViaContiguous(g, sh.src1, sh.src1_shape,
                                                         GemmSrc1NeedsContiguous(sh.src1_shape))}}

\* inserts the Contiguous copies needed, src1 first, then the Matmul node: the
\* set of the one record of what was inserted
GemmInsert(g, mul) == UNION {GemmContiguous1(g, sh) : sh \in {GemmShapes(g, mul)}}

(***************************************************************************)
(* The tail shared by both loop bodies.                                     *)
(***************************************************************************)
\* a body that leaves the consumers on sum_reduce
MoveEdges_none(g, sum_reduce, matmul_op) == g

\* Create edges to dests: the consumers of sum_reduce now read matmul_op
MoveEdges(g, sum_reduce, matmul_op) == move_outgoing_edge(g, sum_reduce, matmul_op)

\* a body that leaves the references where they are
MoveRefs_none(refs, sum_reduce, matmul_op) == refs

\* handles, no_delete and to_retrieve follow sum_reduce to matmul_op
MoveRefs(refs, sum_reduce, matmul_op) == move_references(refs, sum_reduce, matmul_op)

\* a body that leaves the old ops in the graph
RemoveOldOps_none(g, m, sr) == g

\* a body that removes the Mul only
RemoveOldOps_mulonly(g, m, sr) == remove_node(g, m)

\* Remove the old ops
RemoveOldOps(g, m, sr) == remove_node(remove_node(g, m), sr)

\* a body that never takes the no_delete branch
MulPinned_never(nd, m) == FALSE

\* The intermediate mul can't be deleted
MulPinned(nd, m) == m \in nd

(***************************************************************************)
(* Graphs handed to the pass.  An operand view is built the way the graph   *)
(* builder builds it: a stored tensor, a view of it (permute, slice, pad),  *)
(* then one expand per broadcast axis.                                      *)
(***************************************************************************)
Views == {"plain", "perm", "rot", "sliced", "padded"}

\* the 1-based positions of the axes that are not fake, in order
RECURSIVE RealAxes(_, _)
RealAxes(fk, j) ==
    IF j > Len(fk) THEN <<>>
    ELSE (IF fk[j] THEN <<>> ELSE <<j>>) \o RealAxes(fk, j + 1)

\* swap of 0-based positions x and y over n axes
SwapAxes(n, x, y) == [j \in 1..n |-> IF j - 1 = x THEN y ELSE IF j - 1 = y THEN x ELSE j - 1]

\* the stored tensor seen through view v, with logical shape ds
BaseView(ds, v) ==
    LET n == Len(ds)
    IN  CASE v = "perm" /\ n >= 2 ->
               permute(NewTracker(permute(NewTracker(ds), SwapAxes(n, n - 2, n - 1)).dims),
                       SwapAxes(n, n - 2, n - 1))
          [] v = "rot" /\ n >= 2 ->
               permute(NewTracker(permute(NewTracker(ds), SwapAxes(n, 0, 1)).dims),
                       SwapAxes(n, 0, 1))
          [] v = "sliced" /\ n >= 1 ->
               slice(NewTracker([ds EXCEPT ![n] = ds[n] + 1]), n - 1, 1, NoUpper)
          [] v = "padded" /\ n >= 1 /\ ds[n] >= 2 ->
               pad(NewTracker([ds EXCEPT ![n] = ds[n] - 1]), n - 1, 1, 0)
          [] OTHER -> NewTracker(ds)

RECURSIVE ExpandAll(_, _, _, _)
ExpandAll(st, ds, fk, j) ==
    IF j > Len(fk) THEN st
    ELSE IF fk[j] THEN ExpandAll(expand(st, j - 1, ds[j]), ds, fk, j + 1)
    ELSE ExpandAll(st, ds, fk, j + 1)

\* operand of a Mul: logical shape ds, broadcast axes fk, stored through view v
Operand(ds, fk, v) ==
    LET real == RealAxes(fk, 1)
    IN  ExpandAll(BaseView([k \in 1..Len(real) |-> ds[real[k]]], v), ds, fk, 1)

Bools(n) == [1..n -> BOOLEAN]

Shapes(n) == [1..n -> 1..MaxDim]

\* shapes with every axis 1 or the largest dimension
CornerShapes(n) == [1..n -> {1, MaxDim}]

Cfg(ds, fk0, fk1, vA, vB, red, dim) ==
    [shape |-> ds, fk0 |-> fk0, fk1 |-> fk1, vA |-> vA, vB |-> vB, red |-> red, dim |-> dim]

Full3 == [j \in 1..3 |-> MaxDim]

Full4 == [j \in 1..4 |-> MaxDim]

\* one representative of each idiom, for graphs that hold two of them
RepCfgs ==
    {Cfg([Full3 EXCEPT ![1] = 1], <<TRUE, TRUE, FALSE>>, <<TRUE, FALSE, FALSE>>,
         "plain", "perm", "SumReduce", 2),
     Cfg([Full3 EXCEPT ![1] = 1], <<FALSE, TRUE, FALSE>>, <<TRUE, FALSE, FALSE>>,
         "sliced", "plain", "SumReduce", 2),
     Cfg([Full4 EXCEPT ![1] = 1, ![2] = 1], <<FALSE, FALSE, TRUE, FALSE>>,
         <<TRUE, TRUE, FALSE, FALSE>>, "plain", "perm", "SumReduce", 3),
     Cfg(Full3, <<FALSE, TRUE, FALSE>>, <<TRUE, FALSE, FALSE>>,
         "plain", "perm", "SumReduce", 2),
     Cfg(Full3, <<FALSE, TRUE, FALSE>>, <<TRUE, FALSE, FALSE>>,
         "perm", "sliced", "SumReduce", 2),
     Cfg(Full3, <<FALSE, TRUE, FALSE>>, <<TRUE, FALSE, FALSE>>,
         "perm", "plain", "SumReduce", 2),
     Cfg(Full4, <<FALSE, FALSE, TRUE, FALSE>>, <<TRUE, TRUE, FALSE, FALSE>>,
         "rot", "plain", "SumReduce", 3),
     Cfg(Full3, <<FALSE, FALSE, FALSE>>, <<FALSE, FALSE, FALSE>>,
         "plain", "plain", "SumReduce", 2)}

OpA(c) == Operand(c.shape, c.fk0, c.vA)

OpB(c) == Operand(c.shape, c.fk1, c.vB)

\* the view a consumer has of the reduction's output
OutView(c) == NewTracker(DropAt(c.shape, c.dim + 1))

Edge(src, dst, inp, st) == [src |-> src, out |-> 0, dst |-> dst, inp |-> inp, st |-> st]

Graph(ops, es) == [nodes |-> [n \in 0..(Len(ops) - 1) |-> ops[n + 1]], edges |-> es, free |-> <<>>]

Input == Op("Input", -1, "")

Exp == Op("Exp", -1, "")

\* 0:A 1:B 2:Mul 3:Reduce 4:consumer
SingleGraph(c) ==
    Graph(<<Input, Input, Op("Mul", -1, ""), Op(c.red, c.dim, ""), Exp>>,
          {Edge(0, 2, 0, OpA(c)), Edge(1, 2, 1, OpB(c)),
           Edge(2, 3, 0, NewTracker(c.shape)), Edge(3, 4, 0, OutView(c))})

\* two independent idioms: 0..4 as above, 5:A 6:B 7:Mul 8:Reduce 9:consumer
ParGraph(c1, c2) ==
    Graph(<<Input, Input, Op("Mul", -1, ""), Op(c1.red, c1.dim, ""), Exp,
            Input, Input, Op("Mul", -1, ""), Op(c2.red, c2.dim, ""), Exp>>,
          {Edge(0, 2, 0, OpA(c1)), Edge(1, 2, 1, OpB(c1)),
           Edge(2, 3, 0, NewTracker(c1.shape)), Edge(3, 4, 0, OutView(c1)),
           Edge(5, 7, 0, OpA(c2)), Edge(6, 7, 1, OpB(c2)),
           Edge(7, 8, 0, NewTracker(c2.shape)), Edge(8, 9, 0, OutView(c2))})

\* the first idiom's result is operand A of the second:
\* 0:A 1:B 2:Mul 3:Reduce 4:B' 5:Mul' 6:Reduce' 7:consumer
ChainGraph(c1, c2) ==
    Graph(<<Input, Input, Op("Mul", -1, ""), Op(c1.red, c1.dim, ""),
            Input, Op("Mul", -1, ""), Op(c2.red, c2.dim, ""), Exp>>,
          {Edge(0, 2, 0, OpA(c1)), Edge(1, 2, 1, OpB(c1)),
           Edge(2, 3, 0, NewTracker(c1.shape)),
           Edge(3, 5, 0, OpA(c2)), Edge(4, 5, 1, OpB(c2)),
           Edge(5, 6, 0, NewTracker(c2.shape)), Edge(6, 7, 0, OutView(c2))})

\* one Mul read by two reductions: 0:A 1:B 2:Mul 3:Reduce 4:Reduce' 5,6:consumers
SharedGraph(c1, c2) ==
    Graph(<<Input, Input, Op("Mul", -1, ""), Op(c1.red, c1.dim, ""),
            Op(c2.red, c2.dim, ""), Exp, Exp>>,
          {Edge(0, 2, 0, OpA(c1)), Edge(1, 2, 1, OpB(c1)),
           Edge(2, 3, 0, NewTracker(c1.shape)), Edge(2, 4, 0, NewTracker(c1.shape)),
           Edge(3, 5, 0, OutView(c1)), Edge(4, 6, 0, OutView(c1))})

\* one idiom whose operands have a second reader each:
\* 0:A 1:B 2:Mul 3:Reduce 4:consumer 5:reader of A 6:reader of B
FanGraph(c) ==
    Graph(<<Input, Input, Op("Mul", -1, ""), Op(c.red, c.dim, ""), Exp, Exp, Exp>>,
          {Edge(0, 2, 0, OpA(c)), Edge(1, 2, 1, OpB(c)),
           Edge(2, 3, 0, NewTracker(c.shape)), Edge(3, 4, 0, OutView(c)),
           Edge(0, 5, 0, OpA(c)), Edge(1, 6, 0, OpB(c))})

(***************************************************************************)
(* State of one run of MetalMatMulCompiler::compile.                        *)
(***************************************************************************)
VARIABLES
    graph,        \* graph.graph: [nodes, edges, free]
    no_delete,    \* graph.no_delete
    to_retrieve,  \* graph.to_retrieve
    dyn_map,      \* graph.dyn_map
    remap,        \* the node ids held by the user handles passed to compile
    mul,          \* the slot the patterns bind the matched Mul to
    sum_reduce,   \* the slot the patterns bind the matched SumReduce to
    ret,          \* per searcher, the matches it has yielded
    pc,           \* "gemv": first loop, "gemm": second loop, "done": returned
    log,          \* one record per loop iteration, in order
    call,         \* the kernel call being executed: operator, entry point, inputs
    kpc,          \* position of the executing call
    cb,           \* state of the call's command buffer
    trace,        \* the device events of the call, in order
    fcall,        \* the Function closure being run and the shapes of its inputs
    fpc,          \* position of the running closure
    data,         \* the vector the closure fills
    it,           \* <<i, j>> of the closure's loops
    view          \* the shape tracker the closure returns

vars == <<graph, no_delete, to_retrieve, dyn_map, remap, mul, sum_reduce, ret, pc, log,
          call, kpc, cb, trace, fcall, fpc, data, it, view>>

\* the variables of a Function closure
fvars == <<fcall, fpc, data, it, view>>

\* no Function closure runs
NoFunction ==
    /\ fcall = [fn |-> "", inp |-> <<>>]
    /\ fpc = "idle"
    /\ data = <<>>
    /\ it = <<0, 0>>
    /\ view = NewTracker(<<>>)

\* the variables of a kernel call
kvars == <<call, kpc, cb, trace>>

\* no kernel runs while the pass compiles the graph
NoCall ==
    /\ call = [op |-> Op("", -1, ""), entry |-> "", inputs |-> <<>>]
    /\ kpc = "idle"
    /\ cb = "none"
    /\ trace = <<>>

Refs == [remap |-> remap, no_delete |-> no_delete, to_retrieve |-> to_retrieve]

\* the pass starts on graph g with the given pins and handles
Start(g, nd, tr, hs) ==
    /\ graph = g
    /\ no_delete = nd
    /\ to_retrieve = tr
    /\ remap = hs
    /\ dyn_map = <<>>
    /\ mul = 0
    /\ sum_reduce = 0
    /\ ret = [s \in {"s1", "s2", "single", "batch"} |-> {}]
    /\ pc = "gemv"
    /\ log = <<>>
    /\ NoCall
    /\ NoFunction

Handles(held) == [1..NumHandles -> held]

GemvFk0 == {<<TRUE, TRUE, FALSE>>, <<FALSE, TRUE, FALSE>>}

\* one idiom; which broadcast flags the rank-3 selectors tell apart
InitFakes3 ==
    \E ds \in Shapes(3), fk0 \in Bools(3), fk1 \in Bools(3) :
        Start(SingleGraph(Cfg(ds, fk0, fk1, "plain", "plain", "SumReduce", 2)),
              {}, {}, [h \in 1..NumHandles |-> 3])

\* one idiom; which reductions the selectors tell apart
InitReductions ==
    \E ds \in CornerShapes(3), fk0 \in GemvFk0,
       red \in {"SumReduce", "MaxReduce"}, dim \in {1, 2} :
        Start(SingleGraph(Cfg(ds, fk0, <<TRUE, FALSE, FALSE>>, "plain", "plain", red, dim)),
              {}, {}, [h \in 1..NumHandles |-> 3])

\* one idiom; which broadcast flags the rank-4 selectors tell apart
InitFakes4 ==
    \E ds \in CornerShapes(4), fk0 \in Bools(4), fk1 \in Bools(4) :
        Start(SingleGraph(Cfg(ds, fk0, fk1, "plain", "plain", "SumReduce", 3)),
              {}, {}, [h \in 1..NumHandles |-> 3])

\* one rank-3 idiom of the builder's matmul, through every pair of operand
\* views, pinned and held in every way (a retrieved node is a kept node)
InitViews3 ==
    \E ds \in CornerShapes(3), fk0 \in GemvFk0, vA \in Views, vB \in Views,
       nd \in SUBSET {2, 3}, hs \in Handles({2, 3}) :
      \E tr \in SUBSET nd :
        Start(SingleGraph(Cfg(ds, fk0, <<TRUE, FALSE, FALSE>>, vA, vB, "SumReduce", 2)),
              nd, tr, hs)

\* the same for the rank-4 idioms
InitViews4 ==
    \E ds \in {d \in CornerShapes(4) : d[3] = MaxDim /\ d[4] = MaxDim},
       fk0 \in {<<FALSE, FALSE, TRUE, FALSE>>, <<TRUE, FALSE, TRUE, FALSE>>},
       fk1 \in {<<TRUE, TRUE, FALSE, FALSE>>, <<FALSE, TRUE, FALSE, FALSE>>},
       vA \in Views, vB \in Views, nd \in SUBSET {2, 3}, hs \in Handles({2, 3}) :
      \E tr \in SUBSET nd :
        Start(SingleGraph(Cfg(ds, fk0, fk1, vA, vB, "SumReduce", 3)), nd, tr, hs)

\* two independent idioms
InitPar ==
    \E c1 \in RepCfgs, c2 \in RepCfgs, nd \in SUBSET {2, 3, 7, 8}, hs \in Handles({3, 8}) :
        Start(ParGraph(c1, c2), nd, nd \cap {3, 8}, hs)

\* two idioms in a chain
InitChain ==
    \E c1 \in RepCfgs, c2 \in RepCfgs, nd \in SUBSET {2, 3, 5, 6}, hs \in Handles({3, 6}) :
        Start(ChainGraph(c1, c2), nd, nd \cap {3, 6}, hs)

\* one Mul under two reductions
InitShared ==
    \E c1 \in RepCfgs, c2 \in RepCfgs, nd \in SUBSET {2, 3, 4}, hs \in Handles({3, 4}) :
        Start(SharedGraph(c1, c2), nd, nd \cap {3, 4}, hs)

\* one idiom whose operands are read elsewhere too
InitFan ==
    \E c \in RepCfgs, nd \in SUBSET {2, 3}, hs \in Handles({3}) :
        Start(FanGraph(c), nd, nd \cap {3}, hs)

Init ==
    \/ InitFakes3
    \/ InitReductions
    \/ InitFakes4
    \/ InitViews3
    \/ InitViews4
    \/ InitPar
    \/ InitChain
    \/ InitShared
    \/ InitFan

\* a searcher that keeps the Mul of a match it has yielded and pairs it with
\* every reduction the second selector accepts, without looking the Mul up again
NextMatch_stale(g, rt, s) ==
    (Matches(g, Pattern(s))
        \cup {<<m[1], n>> : m \in rt[s],
                            n \in {x \in Ids(g) : SelectSumReduce(g, Pattern(s), x)}})
    \ rt[s]

(***************************************************************************)
(* GraphSearch::next_match: the matches of the searcher's pattern in the    *)
(* graph as it is now that the searcher has not yielded yet.                *)
(***************************************************************************)
NextMatch(g, rt, s) == Matches(g, Pattern(s)) \ rt[s]

\* a loop condition that consults s2 before s1
GemvNext_batchfirst(g, rt) ==
    IF NextMatch(g, rt, "s2") # {}
    THEN {<<"s2", m>> : m \in NextMatch(g, rt, "s2")}
    ELSE {<<"s1", m>> : m \in NextMatch(g, rt, "s1")}

\* a loop condition that consults s1 only
GemvNext_s1only(g, rt) == {<<"s1", m>> : m \in NextMatch(g, rt, "s1")}

\* while s1.next_match() || s2.next_match(): the results <<searcher, match>>
GemvNext(g, rt) ==
    LET first == NextMatch(g, rt, "s1")
    IN  IF first # {}
    THEN {<<"s1", m>> : m \in first}
    ELSE {<<"s2", m>> : m \in NextMatch(g, rt, "s2")}

\* while single_searcher.next_match() || batch_searcher.next_match()
GemmNext(g, rt) ==
    LET first == NextMatch(g, rt, "single")
    IN  IF first # {}
    THEN {<<"single", m>> : m \in first}
    ELSE {<<"batch", m>> : m \in NextMatch(g, rt, "batch")}

\* the Mul -> SumReduce pairs of g: a Mul with a direct edge to a SumReduce
Pairs(g) ==
    {<<e.src, e.dst>> : e \in {x \in g.edges : /\ g.nodes[x.src].ty = "Mul"
                                               /\ g.nodes[x.dst].ty = "SumReduce"}}

\* the searchers whose pattern selects the match in graph g
Selecting(g, m) == {s \in {"s1", "s2", "single", "batch"} : m \in Matches(g, Pattern(s))}

\* the record of one iteration: the searcher that yielded, the bound nodes, the
\* number of Mul -> SumReduce pairs the iteration found in the graph, what
\* the body did, and for a rewrite the operand trackers once the broadcast is
\* undone (undone1/2) and as the kernel reads them (src1_shape/src2_shape)
Entry(loop, r, act, ins) ==
    [loop |-> loop, s |-> r[1], mul |-> r[2][1], sum_reduce |-> r[2][2], act |-> act,
     pats |-> Selecting(graph, r[2]), pairs |-> Cardinality(Pairs(graph)),
     matmul_op |-> ins.matmul_op, op |-> ins.op,
     contig1 |-> ins.contig1, contig2 |-> ins.contig2,
     undone1 |-> ins.undone1, undone2 |-> ins.undone2,
     src1_shape |-> ins.src1_shape, src2_shape |-> ins.src2_shape, rm_ok |-> ins.rm_ok]

NoInsert ==
    [matmul_op |-> -1, op |-> Op("", -1, ""), contig1 |-> -1, contig2 |-> -1,
     undone1 |-> NewTracker(<<>>), undone2 |-> NewTracker(<<>>),
     src1_shape |-> NewTracker(<<>>), src2_shape |-> NewTracker(<<>>), rm_ok |-> TRUE]

\* binds the slots and records the match as yielded
Bind(r) ==
    /\ mul' = r[2][1]
    /\ sum_reduce' = r[2][2]
    /\ ret' = [ret EXCEPT ![r[1]] = @ \cup {r[2]}]

SetRefs(refs) ==
    /\ remap' = refs.remap
    /\ no_delete' = refs.no_delete
    /\ to_retrieve' = refs.to_retrieve

\* the rest of the rewrite once the nodes of `ins` are inserted: redirect the
\* consumers and the references of sum_reduce, then remove the old ops
Apply(loop, r, ins) ==
    /\ graph' = RemoveOldOps(MoveEdges(ins.g, r[2][2], ins.matmul_op), r[2][1], r[2][2])
    /\ SetRefs(MoveRefs(Refs, r[2][2], ins.matmul_op))
    /\ log' = Append(log, Entry(loop, r, "rewrite", ins))
    /\ pc' = pc

\* a bound Mul that is no node of the graph has no sources: srcs[0] panics
Panic(loop, r) ==
    /\ pc' = "panic"
    /\ log' = Append(log, Entry(loop, r, "panic", NoInsert))
    /\ UNCHANGED <<graph, no_delete, to_retrieve, remap>>

GemvSkip ==
    /\ pc = "gemv"
    /\ \E r \in GemvNext(graph, ret) :
          /\ MulPinned(no_delete, r[2][1])
          /\ Bind(r)
          /\ log' = Append(log, Entry("gemv", r, "skip", NoInsert))
    /\ UNCHANGED <<graph, no_delete, to_retrieve, dyn_map, remap, pc>>
    /\ UNCHANGED <<kvars, fvars>>

GemvRewrite ==
    /\ pc = "gemv"
    /\ \E r \in GemvNext(graph, ret) :
          /\ ~MulPinned(no_delete, r[2][1])
          /\ Bind(r)
          /\ IF Len(get_sources(graph, r[2][1])) < 2
             THEN Panic("gemv", r)
             ELSE \E ins \in GemvInsert(graph, r[2][1]) : Apply("gemv", r, ins)
    /\ UNCHANGED dyn_map
    /\ UNCHANGED <<kvars, fvars>>

\* both GEMV searchers are exhausted; the GEMM searchers are created
GemvExit ==
    /\ pc = "gemv"
    /\ GemvNext(graph, ret) = {}
    /\ pc' = "gemm"
    /\ UNCHANGED <<graph, no_delete, to_retrieve, dyn_map, remap, mul, sum_reduce, ret, log>>
    /\ UNCHANGED <<kvars, fvars>>

GemmSkip ==
    /\ pc = "gemm"
    /\ \E r \in GemmNext(graph, ret) :
          /\ MulPinned(no_delete, r[2][1])
          /\ Bind(r)
          /\ log' = Append(log, Entry("gemm", r, "skip", NoInsert))
    /\ UNCHANGED <<graph, no_delete, to_retrieve, dyn_map, remap, pc>>
    /\ UNCHANGED <<kvars, fvars>>

GemmRewrite ==
    /\ pc = "gemm"
    /\ \E r \in GemmNext(graph, ret) :
          /\ ~MulPinned(no_delete, r[2][1])
          /\ Bind(r)
          /\ IF Len(get_sources(graph, r[2][1])) < 2
             THEN Panic("gemm", r)
             ELSE \E ins \in GemmInsert(graph, r[2][1]) : Apply("gemm", r, ins)
    /\ UNCHANGED dyn_map
    /\ UNCHANGED <<kvars, fvars>>

\* both GEMM searchers are exhausted; compile returns
GemmExit ==
    /\ pc = "gemm"
    /\ GemmNext(graph, ret) = {}
    /\ pc' = "done"
    /\ UNCHANGED <<graph, no_delete, to_retrieve, dyn_map, remap, mul, sum_reduce, ret, log>>
    /\ UNCHANGED <<kvars, fvars>>

Next == GemvSkip \/ GemvRewrite \/ GemvExit \/ GemmSkip \/ GemmRewrite \/ GemmExit

Spec == Init /\ [][Next]_vars

(***************************************************************************)
(* Properties.                                                              *)
(***************************************************************************)
Searchers == {"s1", "s2", "single", "batch"}

Range(f) == {f[x] : x \in DOMAIN f}

\* this step ran one loop iteration, recorded as NewEntry
Iterated == Len(log') = Len(log) + 1

NewEntry == log'[Len(log')]

Rewrites == {i \in 1..Len(log) : log[i].act = "rewrite"}

Skips == {i \in 1..Len(log) : log[i].act = "skip"}

\* C1: once compile has returned, every Mul -> SumReduce pair that one of the
\* four patterns selects has its Mul in no_delete.
C1_NoIdiomRemains ==
    pc = "done" =>
        \A s \in Searchers : \A m \in Matches(graph, Pattern(s)) : m[1] \in no_delete

\* compile has returned after rewriting one match in each loop
C1_Witness ==
    /\ pc = "done"
    /\ \E i \in Rewrites, j \in Rewrites : log[i].loop = "gemv" /\ log[j].loop = "gemm"

\* C2: an iteration of either loop whose matched Mul is in no_delete leaves the
\* graph (nodes and edges), no_delete, to_retrieve and the handles as they were.
C2_SkipChangesNothing ==
    [][(Iterated /\ NewEntry.mul \in no_delete) =>
          /\ graph' = graph
          /\ no_delete' = no_delete
          /\ to_retrieve' = to_retrieve
          /\ remap' = remap]_vars

\* a pinned match was skipped in the GEMV loop and one in the GEMM loop
C2_Witness ==
    \E i \in Skips, j \in Skips :
        /\ log[i].loop = "gemv" /\ log[j].loop = "gemm"
        /\ log[i].mul \in Ids(graph) /\ log[i].sum_reduce \in Ids(graph)

\* C3: once compile has returned, every id in no_delete is a node of the graph.
C3_NoDeleteExists == pc = "done" => no_delete \subseteq Ids(graph)

\* compile has returned, a pinned SumReduce was rewritten (its kernel is now the
\* pinned node) and a pinned Mul was skipped
C3_Witness ==
    /\ pc = "done"
    /\ \E i \in Rewrites : log[i].matmul_op \in no_delete
    /\ \E j \in Skips : log[j].mul \in no_delete

\* C4: once compile has returned, every id in to_retrieve and every id held by
\* a handle is a node of the graph (the Mul's id included).
C4_RefsExist ==
    pc = "done" => (to_retrieve \cup Range(remap)) \subseteq Ids(graph)

\* C5: a rewrite moves every outgoing edge of the SumReduce to the kernel node
\* (same consumer, slot and tracker), replaces the SumReduce id by the kernel id
\* in the handles, no_delete and to_retrieve, and removes the SumReduce.
C5_RewriteRedirects ==
    [][(Iterated /\ NewEntry.act = "rewrite") =>
          LET sr == NewEntry.sum_reduce
              k  == NewEntry.matmul_op
          IN  /\ OutEdges(graph', k) = {[e EXCEPT !.src = k] : e \in OutEdges(graph, sr)}
              /\ OutEdges(graph', sr) = {}
              /\ sr \notin Ids(graph') /\ k \in Ids(graph')
              /\ remap' = [h \in DOMAIN remap |-> IF remap[h] = sr THEN k ELSE remap[h]]
              /\ no_delete' = IF sr \in no_delete
                              THEN (no_delete \ {sr}) \cup {k} ELSE no_delete
              /\ to_retrieve' = IF sr \in to_retrieve
                                THEN (to_retrieve \ {sr}) \cup {k} ELSE to_retrieve]_vars

\* a rewritten SumReduce was retrieved, held by a handle and read by a consumer:
\* all three now name the kernel node
C5_Witness ==
    \E i \in Rewrites :
        /\ log[i].matmul_op \in to_retrieve
        /\ log[i].matmul_op \in Range(remap)
        /\ OutEdges(graph, log[i].matmul_op) # {}
        /\ graph.nodes[log[i].matmul_op].ty \in {"MatVec", "MatVec1Row", "Matmul"}

\* C6: in every rewrite, each operand (A as well as B) whose tracker is sliced or
\* padded once the broadcast axes are dropped reaches the kernel through an
\* inserted Contiguous node, on an edge whose tracker is contiguous.
C6_SlicedOperandsCopied ==
    \A i \in Rewrites :
        /\ (is_sliced(log[i].undone1) \/ is_padded(log[i].undone1))
              => (log[i].contig1 # -1 /\ is_contiguous(log[i].src1_shape))
        /\ (is_sliced(log[i].undone2) \/ is_padded(log[i].undone2))
              => (log[i].contig2 # -1 /\ is_contiguous(log[i].src2_shape))

GemvSearchers == {"s1", "s2"}

GemmSearchers == {"single", "batch"}

\* the match of log entry i was selected by a GEMV pattern and by a GEMM pattern
BothKinds(i) ==
    log[i].pats \cap GemvSearchers # {} /\ log[i].pats \cap GemmSearchers # {}

\* C7: a match that a GEMV pattern and a GEMM pattern both select is rewritten
\* in the GEMV loop, to MatVec or MatVec1Row, no Mul is rewritten twice, and in
\* each loop no rank-3 match is processed after a rank-4 match.
C7_GemvBeforeGemmSingleBeforeBatch ==
    /\ \A i \in Rewrites :
          BothKinds(i) => (log[i].loop = "gemv" /\ log[i].op.ty \in {"MatVec", "MatVec1Row"})
    /\ \A i \in Rewrites, j \in Rewrites : i # j => log[i].mul # log[j].mul
    /\ \A i \in 1..Len(log), j \in 1..Len(log) :
          (i < j /\ log[i].loop = log[j].loop)
             => ~(log[i].s \in {"s2", "batch"} /\ log[j].s \in {"s1", "single"})

\* a rank-3 and then a rank-4 match were rewritten in the GEMV loop, each of
\* them selected by a GEMM pattern too
C7_Witness ==
    \E i \in Rewrites, j \in Rewrites :
        /\ i < j /\ log[i].s = "s1" /\ log[j].s = "s2"
        /\ BothKinds(i) /\ BothKinds(j)
        /\ "single" \in log[i].pats /\ "batch" \in log[j].pats

\* C8: in every iteration of either loop the ids bound to mul and sum_reduce are
\* nodes of the graph as it is when next_match returns.
C8_BoundNodesExist ==
    [][Iterated =>
          /\ mul' = NewEntry.mul /\ sum_reduce' = NewEntry.sum_reduce
          /\ mul' \in Ids(graph) /\ sum_reduce' \in Ids(graph)]_vars

\* a Mul read by two reductions of the pattern's axis was rewritten with one of
\* them; the other reduction is still in the graph, without its input, and the
\* loop it could have matched in has ended
C8_Witness ==
    /\ pc = "done"
    /\ \E i \in Rewrites : \E n \in Ids(graph) :
          /\ SelectSumReduce(graph, Pattern(log[i].s), n)
          /\ InEdges(graph, n) = {}

GemmName(x, y) ==
    "gemm_" \o x \o y \o "_float16_float16_bm32_bn32_bk16_wm2_wn2_MN_naligned_K_taligned"

\* the tracker on input slot i of node k
InputTracker(g, k, i) == (CHOOSE e \in InEdges(g, k) : e.inp = i).st

\* C10: the Matmul node a GEMM rewrite emits names gemm_XY where X is n iff the
\* tracker on its input edge 0 is contiguous and Y is n iff the tracker on its
\* input edge 1 is contiguous.
C10_GemmVariantByContiguity ==
    [][(Iterated /\ NewEntry.act = "rewrite" /\ NewEntry.loop = "gemm") =>
          LET k == NewEntry.matmul_op
          IN  /\ graph'.nodes[k].ty = "Matmul"
              /\ graph'.nodes[k].fn =
                    GemmName(IF is_contiguous(InputTracker(graph', k, 0)) THEN "n" ELSE "t",
                             IF is_contiguous(InputTracker(graph', k, 1)) THEN "n" ELSE "t")]_vars

\* one graph holds a gemm_tn and a gemm_nt kernel
C10_Witness ==
    \E a \in Ids(graph), b \in Ids(graph) :
        /\ graph.nodes[a].fn = GemmName("t", "n")
        /\ graph.nodes[b].fn = GemmName("n", "t")

\* the other two variants are emitted too
C10_ReachBoth ==
    \E a \in Ids(graph), b \in Ids(graph) :
        /\ graph.nodes[a].fn = GemmName("t", "t")
        /\ graph.nodes[b].fn = GemmName("n", "n")

(***************************************************************************)
(* What the emitted kernels read.  A kernel is handed the raw buffers of its *)
(* two inputs and the extents taken from the input trackers; the layout it   *)
(* assumes is fixed by the kernel chosen.                                    *)
(***************************************************************************)
\* MatVec and MatVec1Row: element m of the vector
VecOffset(mi) == mi

\* MatVec (gemv_t) reads the matrix as M x N row-major, MatVec1Row as N x M
MatOffset(op, m, n, mi, ni) ==
    IF op.ty = "MatVec1Row" THEN ni * m + mi ELSE mi * n + ni

\* Matmul: A batch stride m * k; letter n reads A as M x K, t as K x M row-major
GemmAOffset(letter, m, k, bi, mi, ki) ==
    bi * (m * k) + (IF letter = "n" THEN mi * k + ki ELSE ki * m + mi)

\* Matmul: B batch stride 0; letter n reads B as K x N, t as N x K row-major
GemmBOffset(letter, k, n, ki, ni) ==
    IF letter = "n" THEN ki * n + ni ELSE ni * k + ki

\* the element of the original source that offset p of the kernel's input buffer
\* holds: the buffer of a Contiguous node holds its input view in logical order
Through(contig, undone, p) ==
    IF contig # -1 THEN Read(undone, Unflatten(shape(undone), p)) ELSE p

Indexes(shp) == {ix \in [1..Len(shp) -> 0..MaxDim] : \A j \in 1..Len(shp) : ix[j] < shp[j]}

\* the two source elements the GEMV kernel of entry e multiplies for the term
\* of the Mul at logical index ix = <<.., n, m>>
GemvTerm(e, ix) ==
    LET mi == ix[Len(ix)]
        ni == ix[Len(ix) - 1]
    IN  <<Through(e.contig1, e.undone1, VecOffset(mi)),
          Through(e.contig2, e.undone2,
                  MatOffset(e.op, shape(e.src1_shape)[1], shape(e.src2_shape)[2], mi, ni))>>

\* the same for the Matmul kernel; ix = <<m, n, k>> or <<d, m, n, k>>
GemmTerm(e, fn, ix) ==
    LET r  == Len(ix)
        a  == shape(e.src1_shape)
        b  == shape(e.src2_shape)
        m  == IF Len(a) = 3 THEN a[2] ELSE a[1]
        bi == IF Len(a) = 3 THEN ix[1] ELSE 0
    IN  <<Through(e.contig1, e.undone1,
                  GemmAOffset(IF fn = GemmName("n", "n") \/ fn = GemmName("n", "t")
                              THEN "n" ELSE "t", m, b[1], bi, ix[r - 2], ix[r])),
          Through(e.contig2, e.undone2,
                  GemmBOffset(IF fn = GemmName("n", "n") \/ fn = GemmName("t", "n")
                              THEN "n" ELSE "t", b[1], b[2], ix[r], ix[r - 1]))>>

KernelTerm(e, ix) == IF e.loop = "gemv" THEN GemvTerm(e, ix) ELSE GemmTerm(e, e.op.fn, ix)

\* the rewrite of this step reads, for every term of every output element, the
\* source elements the Mul read through its two input views
SameReads ==
    LET e  == NewEntry
        tA == InputTracker(graph, e.mul, 0)
        tB == InputTracker(graph, e.mul, 1)
    IN  \A ix \in Indexes(shape(tA)) : KernelTerm(e, ix) = <<Read(tA, ix), Read(tB, ix)>>

\* C9: every rewrite emits a kernel that sums, for each output element, the
\* products of the same source elements that Mul followed by SumReduce read.
C9_KernelReadsWhatMulReads ==
    [][(Iterated /\ NewEntry.act = "rewrite") => SameReads]_vars

\* the same, leaving out the GEMV rewrites whose vector operand is sliced or padded
C9_ExceptSlicedVector ==
    [][(Iterated /\ NewEntry.act = "rewrite"
          /\ ~(NewEntry.loop = "gemv"
                 /\ (is_sliced(NewEntry.undone1) \/ is_padded(NewEntry.undone1))))
        => SameReads]_vars

(***************************************************************************)
(* Kernel selection of the GEMV loop.                                       *)
(***************************************************************************)
GemvT == "gemv_t_float16_bm8_bn32_tm4_tn4"

\* C11: a GEMV rewrite whose final B tracker is contiguous emits MatVec with the
\* gemv_t library kernel, any other emits MatVec1Row; so input 1 of every MatVec
\* node is contiguous and input 1 of every MatVec1Row node is non-contiguous,
\* unsliced and unpadded.
C11_GemvKernelByContiguity ==
    /\ \A i \in Rewrites :
          log[i].loop = "gemv" =>
              IF is_contiguous(log[i].src2_shape)
              THEN log[i].op.ty = "MatVec" /\ log[i].op.fn = GemvT
              ELSE log[i].op.ty = "MatVec1Row"
    /\ \A k \in Ids(graph) :
          /\ graph.nodes[k].ty = "MatVec" =>
                (graph.nodes[k].fn = GemvT /\ is_contiguous(InputTracker(graph, k, 1)))
          /\ graph.nodes[k].ty = "MatVec1Row" =>
                /\ ~is_contiguous(InputTracker(graph, k, 1))
                /\ ~is_sliced(InputTracker(graph, k, 1))
                /\ ~is_padded(InputTracker(graph, k, 1))

\* one graph holds a MatVec1Row node and a MatVec node
C11_Witness ==
    \E a \in Ids(graph), b \in Ids(graph) :
        graph.nodes[a].ty = "MatVec1Row" /\ graph.nodes[b].ty = "MatVec"

\* a sliced or padded B was copied and multiplied by a MatVec node
C11_ReachCopied ==
    \E i \in Rewrites : log[i].op.ty = "MatVec" /\ log[i].contig2 # -1

(***************************************************************************)
(* MetalKernel::output_buffer_sizes of the three kernels.                   *)
(***************************************************************************)
\* size_of::<f16>()
SizeOfF16 == 2

\* a Matmul that sizes its output for one batch entry
output_buffer_sizes_onebatch(op, input_shapes) ==
    IF op.ty \in {"MatVec1Row", "MatVec"}
    THEN <<shape(input_shapes[2])[2] * SizeOfF16>>
    ELSE <<shape(input_shapes[1])[IF len(input_shapes[1]) = 3 THEN 2 ELSE 1]
             * shape(input_shapes[2])[2] * SizeOfF16>>

\* the byte sizes of the output buffers, from the input trackers
output_buffer_sizes(op, input_shapes) ==
    IF op.ty \in {"MatVec1Row", "MatVec"}
    THEN <<shape(input_shapes[2])[2] * SizeOfF16>>
    ELSE LET n == shape(input_shapes[2])[2]
             batch_size == IF len(input_shapes[1]) = 3 THEN shape(input_shapes[1])[1] ELSE 1
             m == IF len(input_shapes[1]) = 3
                  THEN shape(input_shapes[1])[2] ELSE shape(input_shapes[1])[1]
         IN  <<m * n * batch_size * SizeOfF16>>

\* the sizes the kernel node k of graph g declares
DeclaredSizes(g, k) ==
    output_buffer_sizes(g.nodes[k], <<InputTracker(g, k, 0), InputTracker(g, k, 1)>>)

\* bytes of the fp16 output of reduction sr in graph g: its input's extents
\* without the reduced axis
ReduceOutputBytes(g, sr) ==
    Prod(DropAt(shape(InputTracker(g, sr, 0)), g.nodes[sr].dim + 1)) * SizeOfF16

\* C12: the kernel a rewrite emits declares one output buffer whose byte size is
\* that of the output of the SumReduce it replaces.
C12_OutputSizeIsReduceOutput ==
    [][(Iterated /\ NewEntry.act = "rewrite") =>
          DeclaredSizes(graph', NewEntry.matmul_op)
              = <<ReduceOutputBytes(graph, NewEntry.sum_reduce)>>]_vars

\* a batched GEMM with more than one batch entry, row and column was rewritten
C12_Witness ==
    \E i \in Rewrites :
        /\ log[i].op.ty = "Matmul" /\ len(log[i].src1_shape) = 3
        /\ \A j \in 1..3 : shape(log[i].src1_shape)[j] > 1
        /\ shape(log[i].src2_shape)[2] > 1
        /\ log[i].matmul_op \in Ids(graph)
        /\ DeclaredSizes(graph, log[i].matmul_op)[1] > SizeOfF16

(***************************************************************************)
(* Execution of one emitted kernel: Operator::process, which runs the       *)
(* kernel on its own command buffer, and MetalKernel::metal_forward, which   *)
(* the executor calls with a command buffer it supplies.  An input is the    *)
(* shape() of its tracker, a sequence of expressions, and its contiguity.    *)
(***************************************************************************)
MaxExt == 3

MaxVecLen == 64

BM == 8

BN == 32

\* the output tile of the gemm kernels along m and along n
GemmTile == 32

None == -1

\* a conversion that reads an unbound symbol as 1
to_usize_or_one(e) == IF e.sym = "" THEN e.val ELSE 1

\* Expression::to_usize: the value of a constant expression, else None
to_usize(e) == IF e.sym = "" THEN e.val ELSE None

div_ceil(a, b) == (a + b - 1) \div b

Exts == (1..MaxExt) \cup {GemmTile - 1, GemmTile, GemmTile + 1, 4 * BN, 4 * BN + 1}

Dims == {Const(n) : n \in Exts} \cup {Sym("s")}

VecLens == {Const(n) : n \in 1..MaxVecLen} \cup {Sym("s")}

In(shp, c) == [shape |-> shp, contiguous |-> c]

Call(op, entry, a, b) == [op |-> op, entry |-> entry, inputs |-> <<a, b>>]

Entries == {"process", "metal_forward"}

\* MatVec1Row reads a vector [M] and a permuted, non-contiguous matrix [M, N]
MatVec1RowCalls ==
    {Call(Op("MatVec1Row", -1, "matvec"), en, In(<<m>>, TRUE), In(<<m, n>>, FALSE)) :
        en \in Entries, m \in VecLens, n \in Dims}

\* MatVec reads a vector [M] and a contiguous matrix [M, N]
MatVecCalls ==
    {Call(Op("MatVec", -1, "gemv_t_float16_bm8_bn32_tm4_tn4"), en,
          In(<<m>>, TRUE), In(<<m, n>>, TRUE)) :
        en \in Entries, m \in Dims, n \in Dims}

\* Matmul reads A [M, K] and B [K, N] in either layout
MatmulCalls ==
    {Call(Op("Matmul", -1, GemmName(IF ca THEN "n" ELSE "t", IF cb2 THEN "n" ELSE "t")),
          en, In(<<m, k>>, ca), In(<<k, n>>, cb2)) :
        en \in Entries, m \in Dims, k \in {Const(1), Sym("s")}, n \in Dims,
        ca \in BOOLEAN, cb2 \in BOOLEAN}

\* batched Matmul reads A [D, M, K] and B [K, N]
BatchMatmulCalls ==
    {Call(Op("Matmul", -1, GemmName("n", "n")), en, In(<<d, m, k>>, TRUE), In(<<k, n>>, TRUE)) :
        en \in Entries, d \in {Const(1), Const(MaxExt), Sym("s")}, m \in Dims,
        k \in {Const(1), Sym("s")}, n \in Dims}

IsGemv(c) == c.op.ty \in {"MatVec1Row", "MatVec"}

a_shape(c) == c.inputs[1].shape

b_shape(c) == c.inputs[2].shape

\* the expressions process unwraps before it allocates the output
ProcessUnwraps(c) ==
    IF IsGemv(c) THEN <<b_shape(c)[2]>>
    ELSE IF Len(a_shape(c)) = 3 THEN <<b_shape(c)[2], a_shape(c)[1], a_shape(c)[2]>>
    ELSE <<b_shape(c)[2], a_shape(c)[1]>>

\* the bytes of the output buffer process allocates
ProcessOutBytes(c) ==
    IF IsGemv(c) THEN to_usize(b_shape(c)[2]) * SizeOfF16
    ELSE IF Len(a_shape(c)) = 3
    THEN to_usize(a_shape(c)[1]) * to_usize(a_shape(c)[2]) * to_usize(b_shape(c)[2]) * SizeOfF16
    ELSE 0 * to_usize(a_shape(c)[1]) * to_usize(b_shape(c)[2]) * SizeOfF16

\* the expressions metal_forward unwraps before it creates the encoder
ForwardUnwraps(c) ==
    IF IsGemv(c) THEN <<a_shape(c)[1], b_shape(c)[2]>>
    ELSE IF Len(a_shape(c)) = 3
    THEN <<b_shape(c)[1], b_shape(c)[2], a_shape(c)[1], a_shape(c)[2]>>
    ELSE <<b_shape(c)[1], b_shape(c)[2], a_shape(c)[1]>>

\* unwrap() of every expression of es succeeds
Unwrap(es) == \A i \in 1..Len(es) : to_usize(es[i]) # None

\* the extents metal_forward passes on: m, n, k and batch_size
FwdM(c) == to_usize(a_shape(c)[IF Len(a_shape(c)) = 3 THEN 2 ELSE 1])

FwdN(c) == to_usize(b_shape(c)[2])

FwdK(c) == to_usize(b_shape(c)[1])

FwdBatch(c) == IF Len(a_shape(c)) = 3 THEN to_usize(a_shape(c)[1]) ELSE 1

Ev(name, args) == [ev |-> name, args |-> args]

\* set_buffer of the three buffers: 0 and 1 are the inputs, 2 is the output
SetBuffers(c) ==
    IF IsGemv(c)
    THEN <<Ev("set_buffer", <<0, 1>>), Ev("set_buffer", <<1, 0>>), Ev("set_buffer", <<2, 2>>)>>
    ELSE <<Ev("set_buffer", <<0, 0>>), Ev("set_buffer", <<1, 1>>), Ev("set_buffer", <<2, 2>>)>>

SetInts(c) ==
    CASE c.op.ty = "MatVec1Row" -> <<Ev("set_i32", <<3, FwdM(c)>>)>>
      [] c.op.ty = "MatVec" ->
            <<Ev("set_i32", <<3, FwdM(c)>>), Ev("set_i32", <<4, FwdN(c)>>),
              Ev("set_i32", <<5, 0>>), Ev("set_i32", <<6, 0>>)>>
      [] OTHER ->
            <<Ev("set_i32", <<3, FwdM(c)>>), Ev("set_i32", <<4, FwdN(c)>>),
              Ev("set_i32", <<5, FwdK(c)>>), Ev("set_i32", <<6, FwdM(c) * FwdK(c)>>),
              Ev("set_i32", <<7, 0>>), Ev("set_i32", <<8, FwdM(c) * FwdN(c)>>)>>

\* the tile constant MatVec picks for the layout of its matrix
GemvB(c) == IF c.inputs[2].contiguous THEN BN ELSE BM

\* dispatch_thread_groups: the grid of thread groups, then the threads of a group
Dispatch(c) ==
    CASE c.op.ty = "MatVec1Row" -> Ev("dispatch", <<FwdN(c), 1, 1, 1, 32, 8>>)
      [] c.op.ty = "MatVec" ->
            Ev("dispatch", <<div_ceil(FwdN(c) + GemvB(c) * 4 - 1, GemvB(c) * 4), 1, 1,
                             BN, BM, 1>>)
      [] OTHER ->
            Ev("dispatch", <<div_ceil(FwdN(c) + 32 - 1, 32), div_ceil(FwdM(c) + 32 - 1, 32),
                             FwdBatch(c), 32, 2, 2>>)

\* what metal_forward encodes once the extents are known
ForwardEvents(c) ==
    <<Ev("encoder", <<>>)>> \o SetBuffers(c) \o SetInts(c)
        \o <<Dispatch(c), Ev("end_encoding", <<>>)>>

\* a process that returns the output right after commit
After_nowait(entry, p) ==
    CASE p = "new_command_buffer" -> "process_dims"
      [] p = "process_dims" -> "new_buffer"
      [] p = "new_buffer" -> "forward_dims"
      [] p = "forward_dims" -> "encode"
      [] p = "encode" -> IF entry = "process" THEN "commit" ELSE "returned"
      [] p = "commit" -> "return"
      [] p = "wait" -> "return"
      [] p = "return" -> "returned"

\* the statement after position p of the call
After(entry, p) ==
    CASE p = "new_command_buffer" -> "process_dims"
      [] p = "process_dims" -> "new_buffer"
      [] p = "new_buffer" -> "forward_dims"
      [] p = "forward_dims" -> "encode"
      [] p = "encode" -> IF entry = "process" THEN "commit" ELSE "returned"
      [] p = "commit" -> "wait"
      [] p = "wait" -> "return"
      [] p = "return" -> "returned"

\* the variables of the pass
cvars == <<graph, no_delete, to_retrieve, dyn_map, remap, mul, sum_reduce, ret, pc, log>>

\* the pass has returned; the graph it left is not looked at by a kernel call
Compiled ==
    /\ graph = Graph(<<>>, {})
    /\ no_delete = {}
    /\ to_retrieve = {}
    /\ remap = <<>>
    /\ dyn_map = <<>>
    /\ mul = 0
    /\ sum_reduce = 0
    /\ ret = [s \in {"s1", "s2", "single", "batch"} |-> {}]
    /\ pc = "done"
    /\ log = <<>>

\* process creates its command buffer; metal_forward is handed a fresh one
StartCall(c) ==
    /\ call = c
    /\ kpc = IF c.entry = "process" THEN "new_command_buffer" ELSE "forward_dims"
    /\ cb = IF c.entry = "process" THEN "none" ELSE "new"
    /\ trace = <<>>

ExecInit ==
    /\ Compiled
    /\ NoFunction
    /\ \E c \in MatVec1RowCalls \cup MatVecCalls \cup MatmulCalls \cup BatchMatmulCalls :
          StartCall(c)

\* position p is done: the events it issued and the statement that follows
Step(p, evs) ==
    /\ kpc = p
    /\ kpc' = After(call.entry, p)
    /\ trace' = trace \o evs
    /\ UNCHANGED <<call, cvars, fvars>>

\* an unwrap() of None at position p
Abort(p) ==
    /\ kpc = p
    /\ kpc' = "panic"
    /\ UNCHANGED <<call, cb, trace, cvars, fvars>>

\* self.queue.new_command_buffer()
NewCommandBuffer ==
    /\ Step("new_command_buffer", <<Ev("new_command_buffer", <<>>)>>)
    /\ cb' = "new"

\* process reads the output extents
ProcessDims ==
    /\ Unwrap(ProcessUnwraps(call))
    /\ Step("process_dims", <<>>)
    /\ UNCHANGED cb

ProcessAbort ==
    /\ ~Unwrap(ProcessUnwraps(call))
    /\ Abort("process_dims")

\* self.device.new_buffer(..)
NewBuffer ==
    /\ Step("new_buffer", <<Ev("new_buffer", <<ProcessOutBytes(call)>>)>>)
    /\ UNCHANGED cb

\* metal_forward reads m, n, k and batch_size
ForwardDims ==
    /\ Unwrap(ForwardUnwraps(call))
    /\ Step("forward_dims", <<>>)
    /\ UNCHANGED cb

ForwardAbort ==
    /\ ~Unwrap(ForwardUnwraps(call))
    /\ Abort("forward_dims")

\* metal_forward encodes the kernel: encoder, buffers, extents, dispatch, end
Encode ==
    /\ Step("encode", ForwardEvents(call))
    /\ cb' = "encoded"

\* command_buffer.commit()
Commit ==
    /\ Step("commit", <<Ev("commit", <<>>)>>)
    /\ cb' = "committed"

\* the device finishes the committed commands
Completed ==
    /\ cb = "committed"
    /\ cb' = "completed"
    /\ trace' = Append(trace, Ev("completed", <<>>))
    /\ UNCHANGED <<call, kpc, cvars, fvars>>

\* command_buffer.wait_until_completed() returns once the device is done
WaitUntilCompleted ==
    /\ cb = "completed"
    /\ Step("wait", <<Ev("wait_until_completed", <<>>)>>)
    /\ UNCHANGED cb

\* vec![Tensor::new(out)]
Return ==
    /\ Step("return", <<Ev("return", <<>>)>>)
    /\ UNCHANGED cb

ExecNext ==
    \/ NewCommandBuffer
    \/ ProcessDims
    \/ ProcessAbort
    \/ NewBuffer
    \/ ForwardDims
    \/ ForwardAbort
    \/ Encode
    \/ Commit
    \/ Completed
    \/ WaitUntilCompleted
    \/ Return

ExecSpec == ExecInit /\ [][ExecNext]_vars

(***************************************************************************)
(* Properties of a kernel call.                                             *)
(***************************************************************************)
\* the least number of tiles of extent t that cover extent x
Ceiling(x, t) == CHOOSE q \in 0..x : q * t >= x /\ (q - 1) * t < x

Dispatches == {i \in 1..Len(trace) : trace[i].ev = "dispatch"}

Events(name) == {i \in 1..Len(trace) : trace[i].ev = name}

\* C13: Matmul dispatches ceil(n/32) by ceil(m/32) by batch groups of 32x2x2
\* threads, and MatVec dispatches ceil(n/(4*b)) groups of 32x8 threads.
C13_GroupsAreCeilings ==
    \A i \in Dispatches :
        /\ call.op.ty = "Matmul" =>
              trace[i].args = <<Ceiling(FwdN(call), GemmTile), Ceiling(FwdM(call), GemmTile),
                                FwdBatch(call), 32, 2, 2>>
        /\ call.op.ty = "MatVec" =>
              trace[i].args = <<Ceiling(FwdN(call), 4 * GemvB(call)), 1, 1, BN, BM, 1>>

\* the same with one more group allowed along each tiled axis
C13_GroupsCoverOutput ==
    \A i \in Dispatches :
        /\ call.op.ty = "Matmul" =>
              /\ trace[i].args[1] - Ceiling(FwdN(call), GemmTile) \in {0, 1}
              /\ trace[i].args[2] - Ceiling(FwdM(call), GemmTile) \in {0, 1}
              /\ trace[i].args[3] = FwdBatch(call)
        /\ call.op.ty = "MatVec" =>
              trace[i].args[1] - Ceiling(FwdN(call), 4 * GemvB(call)) \in {0, 1}

(***************************************************************************)
(* Properties of the matches the pass rewrites.                             *)
(***************************************************************************)
\* the fake flags of the stated GEMV idioms on the input trackers a and b
StatedGemvFakes(a, b) ==
    IF len(a) = 3
    THEN a.fake[1] /\ a.fake[2] /\ b.fake[1] /\ ~b.fake[2] /\ ~b.fake[3]
    ELSE a.fake[2] /\ a.fake[3] /\ b.fake[2] /\ ~b.fake[3] /\ ~b.fake[4]

\* C14: a Mul is rewritten to a GEMV kernel only if its inputs carry the fake
\* flags of the stated idioms: rank 3, input 0 fake on axes 0 and 1 and input 1
\* fake on axis 0 only; rank 4, input 0 fake on axes 1 and 2 and input 1 fake on
\* axis 1 and not on axes 2 and 3.
C14_GemvOnlyOnStatedFakes ==
    [][(Iterated /\ NewEntry.act = "rewrite" /\ NewEntry.loop = "gemv") =>
          StatedGemvFakes(InputTracker(graph, NewEntry.mul, 0),
                          InputTracker(graph, NewEntry.mul, 1))]_vars

\* the flags the two GEMV selectors do require
C14_GemvOnRequiredFakes ==
    [][(Iterated /\ NewEntry.act = "rewrite" /\ NewEntry.loop = "gemv") =>
          MatchFakes(Pattern(NewEntry.s).fakes,
                     <<InputTracker(graph, NewEntry.mul, 0),
                       InputTracker(graph, NewEntry.mul, 1)>>)]_vars

(***************************************************************************)
(* More properties of a kernel call.                                        *)
(***************************************************************************)
\* an extent of an input shape is a symbol without a value
SymbolicDim(c) ==
    \E i \in 1..2 : \E j \in 1..Len(c.inputs[i].shape) : c.inputs[i].shape[j].sym # ""

DeviceEvents == {"encoder", "set_buffer", "set_i32", "dispatch", "end_encoding",
                 "commit", "completed", "wait_until_completed", "return"}

\* C15: a call whose inputs have an unbound symbolic extent creates no encoder,
\* binds no buffer, dispatches nothing and returns no output: it never gets past
\* the unwrap of its extents.
C15_SymbolAborts ==
    SymbolicDim(call) =>
        /\ \A i \in 1..Len(trace) : trace[i].ev \notin DeviceEvents
        /\ kpc \in {"new_command_buffer", "process_dims", "new_buffer", "forward_dims", "panic"}
        /\ cb \in {"none", "new"}

\* process has allocated the output from a concrete N and then metal_forward
\* aborted on a symbolic M or K
C15_Witness ==
    /\ SymbolicDim(call) /\ call.entry = "process"
    /\ kpc = "panic"
    /\ Events("new_buffer") # {}

\* metal_forward itself aborted on a symbol
C15_ReachForward ==
    SymbolicDim(call) /\ call.entry = "metal_forward" /\ kpc = "panic"

\* the place of an event in the order process must keep
Stage(ev) ==
    CASE ev = "new_command_buffer" -> 1
      [] ev = "new_buffer" -> 2
      [] ev = "encoder" -> 3
      [] ev \in {"set_buffer", "set_i32"} -> 4
      [] ev = "dispatch" -> 5
      [] ev = "end_encoding" -> 6
      [] ev = "commit" -> 7
      [] ev = "completed" -> 8
      [] ev = "wait_until_completed" -> 9
      [] ev = "return" -> 10

Once == {"new_command_buffer", "encoder", "dispatch", "end_encoding", "commit",
         "completed", "wait_until_completed", "return"}

\* C16: metal_forward only encodes (encoder, buffers, dispatch, end_encoding) and
\* never commits or waits; process issues new command buffer, the encoding
\* through end_encoding, commit, wait_until_completed and the return in this
\* order, commits exactly one command buffer, and returns the output only after
\* the device has completed that buffer.
C16_EncodeCommitWaitReturn ==
    /\ \A i \in 1..Len(trace), j \in 1..Len(trace) :
          i < j => Stage(trace[i].ev) <= Stage(trace[j].ev)
    /\ \A ev \in Once : Cardinality(Events(ev)) <= 1
    /\ call.entry = "metal_forward" =>
          /\ Events("commit") \cup Events("wait_until_completed") \cup Events("completed") = {}
          /\ cb \in {"new", "encoded"}
          /\ kpc = "returned" => (Events("end_encoding") # {} /\ cb = "encoded")
    /\ (call.entry = "process" /\ (kpc = "returned" \/ Events("return") # {})) =>
          /\ \A ev \in Once : Cardinality(Events(ev)) = 1
          /\ cb = "completed"

\* a process call has returned its output
C16_Witness ==
    /\ call.entry = "process" /\ kpc = "returned"
    /\ trace[Len(trace)].ev = "return"
    /\ Events("dispatch") # {}

\* a metal_forward call has returned with its command buffer encoded
C16_ReachForward ==
    call.entry = "metal_forward" /\ kpc = "returned" /\ cb = "encoded"

(***************************************************************************)
(* The matvec shader of MatVec1Row.  A thread group of 1 x 32 x 8 threads    *)
(* computes one output row; thread_pos.z picks a chunk of the row, simd_pos  *)
(* the lane.  Addresses are byte offsets into the matrix and vector buffers. *)
(***************************************************************************)
\* int chunk_offset = thread_pos.z * (M / 4)
chunk_offset(M, z) == z * (M \div 4)

\* the values of i in: for (int i = simd_pos; i < M/32; i += 32)
LaneIters(M, simd_pos) == {i \in 0..(M \div 32) : i < M \div 32 /\ i % 32 = simd_pos}

\* the terms mat[i][k] * vec[i][k] the threads of row `row` add up, each with the
\* byte offsets of its two half operands
ShaderTerms(M, row) ==
    {[z |-> t[1], simd_pos |-> t[2], i |-> t[3], k |-> t[4],
      mat |-> row * M * 2 + chunk_offset(M, t[1]) + (4 * t[3] + t[4]) * SizeOfF16,
      vec |-> chunk_offset(M, t[1]) + (4 * t[3] + t[4]) * SizeOfF16] :
        t \in {u \in (0..7) \X (0..31) \X (0..(M \div 32)) \X (0..3) :
                  u[3] \in LaneIters(M, u[2])}}

\* row `row` of an N x M row-major matrix times the vector: for each k, exactly
\* one term reads element k of the row and element k of the vector, and no term
\* reads anything else
RowTimesVector(M, row) ==
    /\ \A k \in 0..(M - 1) :
          Cardinality({t \in ShaderTerms(M, row) :
                          t.mat = (row * M + k) * SizeOfF16 /\ t.vec = k * SizeOfF16}) = 1
    /\ \A t \in ShaderTerms(M, row) :
          \E k \in 0..(M - 1) : t.mat = (row * M + k) * SizeOfF16 /\ t.vec = k * SizeOfF16

\* this step encodes the dispatch of a MatVec1Row call
EncodesMatVec1Row == call.op.ty = "MatVec1Row" /\ kpc = "encode" /\ kpc' # "encode"

\* C17: for every M >= 1 the thread groups MatVec1Row dispatches accumulate, for
\* each output row, mat[row][k] * vec[k] for each k in 0..M exactly once and
\* read nothing outside the row.
C17_MatVec1RowCoversRow ==
    [][EncodesMatVec1Row =>
          \A row \in {0, FwdN(call) - 1} : RowTimesVector(FwdM(call), row)]_vars

\* the same for the vector lengths that are multiples of 32
C17_MultiplesOf32 ==
    [][(EncodesMatVec1Row /\ FwdM(call) % 32 = 0) =>
          \A row \in {0, FwdN(call) - 1} : RowTimesVector(FwdM(call), row)]_vars

(***************************************************************************)
(* More properties of the rewrites.                                         *)
(***************************************************************************)
\* the edge into input slot i of node k
InputEdge(g, k, i) == CHOOSE e \in InEdges(g, k) : e.inp = i

\* this step rewrote a batched GEMM: operand A has rank 3
BatchedGemmRewrite ==
    /\ Iterated /\ NewEntry.act = "rewrite" /\ NewEntry.loop = "gemm"
    /\ len(NewEntry.undone1) = 3

\* C18: in a batched-GEMM rewrite, an A whose batch axis is not leading is read
\* through a new Contiguous node, the Matmul's A edge carries the contiguous()
\* tracker and variant n is chosen for A; an A with a leading batch axis that is
\* neither sliced nor padded gets no Contiguous node.
C18_BatchAxisNotLeadingIsCopied ==
    [][BatchedGemmRewrite =>
          LET e == NewEntry
              a == InputEdge(graph', e.matmul_op, 0)
          IN  /\ e.undone1.indexes[1] # 0 =>
                    /\ e.contig1 \in Ids(graph') \ Ids(graph)
                    /\ graph'.nodes[e.contig1].ty = "Contiguous"
                    /\ InputEdge(graph', e.contig1, 0).src = InputEdge(graph, e.mul, 0).src
                    /\ InputEdge(graph', e.contig1, 0).st = e.undone1
                    /\ a.src = e.contig1
                    /\ a.st = contiguous(e.undone1) /\ is_contiguous(a.st)
                    /\ e.op.fn \in {GemmName("n", "n"), GemmName("n", "t")}
              /\ (e.undone1.indexes[1] = 0 /\ ~is_sliced(e.undone1) /\ ~is_padded(e.undone1)) =>
                    /\ e.contig1 = -1
                    /\ a.src = InputEdge(graph, e.mul, 0).src
                    /\ a.st = e.undone1]_vars

\* a batched A that is neither sliced nor padded was copied because its batch
\* axis is not leading
C18_Witness ==
    \E i \in Rewrites :
        /\ log[i].loop = "gemm" /\ len(log[i].undone1) = 3
        /\ log[i].undone1.indexes[1] # 0
        /\ ~is_sliced(log[i].undone1) /\ ~is_padded(log[i].undone1)
        /\ log[i].contig1 # -1

\* a batched A with a leading batch axis and swapped matrix axes was not copied
C18_ReachUncopied ==
    \E i \in Rewrites :
        /\ log[i].loop = "gemm" /\ len(log[i].undone1) = 3
        /\ log[i].undone1.indexes[1] = 0 /\ ~is_contiguous(log[i].undone1)
        /\ log[i].contig1 = -1

\* input slot i of kernel k reads output 0 of the Mul's source i, directly or
\* through the Contiguous node `contig` inserted for it
ReadsOperand(g, h, k, m, i, contig) ==
    LET e == InputEdge(h, k, i)
        o == InputEdge(g, m, i)
    IN  /\ e.out = 0
        /\ IF contig = -1 THEN e.src = o.src
           ELSE /\ e.src = contig
                /\ InputEdge(h, contig, 0).src = o.src /\ InputEdge(h, contig, 0).out = 0
                /\ Cardinality(InEdges(h, contig)) = 1

\* the shapes <<A, B>> the kernel of a match of Mul shape ms is to be given
OperandShapes(loop, ms) ==
    LET r == Len(ms)
    IN  IF loop = "gemv" THEN << <<ms[r]>>, <<ms[r], ms[r - 1]>> >>
        ELSE IF r = 3 THEN << <<ms[1], ms[3]>>, <<ms[3], ms[2]>> >>
        ELSE << <<ms[1], ms[2], ms[4]>>, <<ms[4], ms[3]>> >>

\* C19: the kernel of a rewrite has exactly two input edges, slot 0 from the
\* Mul's source 0 and slot 1 from its source 1 (or their Contiguous copies), both
\* from producer output 0; every remove_dim of the rewrite was on a fake or unit
\* axis; and the trackers left are A [M] and B [M,N] for the GEMV matches, A [M,K]
\* or [D,A,B] and B [K,N] for the GEMM matches.
C19_OperandOrderAndShapes ==
    [][(Iterated /\ NewEntry.act = "rewrite") =>
          LET e  == NewEntry
              sh == OperandShapes(e.loop, shape(InputTracker(graph, e.mul, 0)))
          IN  /\ {x.inp : x \in InEdges(graph', e.matmul_op)} = {0, 1}
              /\ Cardinality(InEdges(graph', e.matmul_op)) = 2
              /\ ReadsOperand(graph, graph', e.matmul_op, e.mul, 0, e.contig1)
              /\ ReadsOperand(graph, graph', e.matmul_op, e.mul, 1, e.contig2)
              /\ e.rm_ok
              /\ shape(e.undone1) = sh[1] /\ shape(e.undone2) = sh[2]
              /\ shape(InputTracker(graph', e.matmul_op, 0)) = sh[1]
              /\ shape(InputTracker(graph', e.matmul_op, 1)) = sh[2]]_vars

\* a GEMM whose operands were both copied, with M, N and K not all equal
C19_Witness ==
    \E i \in Rewrites :
        /\ log[i].loop = "gemm" /\ log[i].contig1 # -1 /\ log[i].contig2 # -1
        /\ shape(log[i].src1_shape) # shape(log[i].src2_shape)
        /\ log[i].matmul_op \in Ids(graph)

\* a GEMV whose vector had a unit axis that is not fake removed
C19_ReachUnitAxis ==
    \E i \in Rewrites :
        /\ log[i].loop = "gemv" /\ log[i].s = "s1" /\ "single" \in log[i].pats
        /\ shape(log[i].src2_shape)[1] # shape(log[i].src2_shape)[2]

KernelTypes == {"MatVec", "MatVec1Row", "Matmul"}

\* the Contiguous nodes a rewrite recorded
Copies(e) == {e.contig1, e.contig2} \ {-1}

\* C20: a rewrite removes exactly the matched Mul and SumReduce and adds exactly
\* one kernel node and at most one Contiguous node per operand; the new nodes
\* are added while the Mul and the SumReduce are still in the graph (none of
\* them takes over a freed id of the two), and the consumers and references of
\* the SumReduce are moved to the kernel before the SumReduce goes.
C20_TwoOutOneIn ==
    [][(Iterated /\ NewEntry.act = "rewrite") =>
          LET e == NewEntry
          IN  /\ e.mul # e.sum_reduce
              /\ Ids(graph) \ Ids(graph') = {e.mul, e.sum_reduce}
              /\ Ids(graph') \ Ids(graph) = {e.matmul_op} \cup Copies(e)
              /\ e.matmul_op \notin Copies(e)
              /\ graph'.nodes[e.matmul_op].ty \in KernelTypes
              /\ \A c \in Copies(e) : graph'.nodes[c].ty = "Contiguous"
              /\ (e.contig1 # -1 /\ e.contig2 # -1) => e.contig1 # e.contig2
              /\ {[src |-> e.sum_reduce, dst |-> x.dst, inp |-> x.inp, st |-> x.st] :
                     x \in OutEdges(graph', e.matmul_op)}
                   = {[src |-> x.src, dst |-> x.dst, inp |-> x.inp, st |-> x.st] :
                        x \in OutEdges(graph, e.sum_reduce)}
              /\ e.sum_reduce \notin no_delete' \cup to_retrieve' \cup Range(remap')
              /\ e.sum_reduce \in no_delete => e.matmul_op \in no_delete'
              /\ e.sum_reduce \in to_retrieve => e.matmul_op \in to_retrieve']_vars

\* a second rewrite gave its kernel an id the first rewrite had freed, and
\* copied an operand
C20_Witness ==
    \E i \in Rewrites, j \in Rewrites :
        /\ i < j
        /\ ({log[i].mul, log[i].sum_reduce} \cap ({log[j].matmul_op} \cup Copies(log[j]))) # {}
        /\ Copies(log[j]) # {}

(***************************************************************************)
(* What the pass leaves alone.                                              *)
(***************************************************************************)
Muls(g) == {n \in Ids(g) : g.nodes[n].ty = "Mul"}

\* the SumReduce nodes along the last axis of Mul m's inputs that m feeds directly
LastAxisReductions(g, m) ==
    {e.dst : e \in {x \in OutEdges(g, m) :
                      /\ g.nodes[x.dst].ty = "SumReduce"
                      /\ InEdges(g, m) # {}
                      /\ g.nodes[x.dst].dim = len(InputTracker(g, m, 0)) - 1}}

\* slots and trackers of the inputs of node n
InputViews(g, n) == {<<e.inp, e.out, e.st>> : e \in InEdges(g, n)}

\* C21: a rewrite's Mul has a direct edge to the bound node, which is a SumReduce
\* along the last axis of the Mul's inputs; a Mul that feeds no such SumReduce
\* (another axis, a MaxReduce, any other operator) stays in the graph with its
\* operator, its inputs and its outgoing edges as they were.
C21_OnlyLastAxisSumReduce ==
    [][/\ (Iterated /\ NewEntry.act = "rewrite") =>
             /\ NewEntry.sum_reduce \in LastAxisReductions(graph, NewEntry.mul)
             /\ NewEntry.mul \in Muls(graph)
       /\ \A m \in Muls(graph) :
             LastAxisReductions(graph, m) = {} =>
                 /\ m \in Ids(graph') /\ graph'.nodes[m] = graph.nodes[m]
                 /\ OutEdges(graph', m) = OutEdges(graph, m)
                 /\ InputViews(graph', m) = InputViews(graph, m)]_vars

\* compile has returned and has left an unpinned Mul that feeds a MaxReduce,
\* though its inputs have the shapes and fake flags of a pattern
C21_Witness ==
    /\ pc = "done"
    /\ \E m \in Muls(graph) \ no_delete : \E s \in Searchers :
          /\ SelectMul(graph, Pattern(s), m)
          /\ \E e \in OutEdges(graph, m) : graph.nodes[e.dst].ty = "MaxReduce"

\* the same for a SumReduce along another axis, whatever else the graph holds
C21_ReachOtherAxis ==
    /\ pc = "done"
    /\ \E m \in Muls(graph) \ no_delete : \E s \in Searchers :
          /\ SelectMul(graph, Pattern(s), m)
          /\ \E e \in OutEdges(graph, m) :
                graph.nodes[e.dst].ty = "SumReduce" /\ graph.nodes[e.dst].dim # Pattern(s).dim

(***************************************************************************)
(* The output buffer of process against the declared size.                  *)
(***************************************************************************)
\* the tracker of an input of the call: its extents, in order
TrackerOf(inp) == NewTracker([j \in 1..Len(inp.shape) |-> to_usize(inp.shape[j])])

CallTrackers(c) == <<TrackerOf(c.inputs[1]), TrackerOf(c.inputs[2])>>

\* C22: the output buffer process allocates has the byte size the kernel's
\* output_buffer_sizes declares for the same input trackers; Matmul::process
\* with a rank-2 A allocates M*N*2 bytes.
C22_ProcessAllocatesDeclaredSize ==
    \A i \in Events("new_buffer") :
        <<trace[i].args[1]>> = output_buffer_sizes(call.op, CallTrackers(call))

\* the same for every call but Matmul with a rank-2 A
C22_ExceptRank2Matmul ==
    (call.op.ty = "Matmul" => Len(a_shape(call)) = 3) =>
        \A i \in Events("new_buffer") :
            <<trace[i].args[1]>> = output_buffer_sizes(call.op, CallTrackers(call))

(***************************************************************************)
(* Consumers of a Mul other than the matched SumReduce.                     *)
(***************************************************************************)
InputSlots(g, n) == {e.inp : e \in InEdges(g, n)}

\* the nodes that read a Mul of graph g
MulConsumers(g) == {e.dst : e \in {x \in g.edges : x.src \in Muls(g)}}

\* C23: a node that reads a Mul's output and survives a step of the pass keeps
\* every input edge, each from a node of the graph; so the pass removes no Mul
\* that has a consumer other than the matched SumReduce.
C23_MulConsumersKeepInputs ==
    [][\A n \in MulConsumers(graph) \cap Ids(graph') :
          /\ InputSlots(graph', n) = InputSlots(graph, n)
          /\ \A e \in InEdges(graph', n) : e.src \in Ids(graph')]_vars

\* the same for the rewrites whose Mul feeds the matched SumReduce only
C23_SoleConsumer ==
    [][(Iterated /\ Cardinality(OutEdges(graph, NewEntry.mul)) = 1) =>
          \A n \in MulConsumers(graph) \cap Ids(graph') :
              /\ InputSlots(graph', n) = InputSlots(graph, n)
              /\ \A e \in InEdges(graph', n) : e.src \in Ids(graph')]_vars

(***************************************************************************)
(* C24: what a rewrite leaves alone.                                        *)
(***************************************************************************)
\* the nodes of the match of this step
Matched == {NewEntry.mul, NewEntry.sum_reduce}

\* the nodes this step added
Added == {NewEntry.matmul_op} \cup Copies(NewEntry)

\* the edges of g with neither end in ns
EdgesOutside(g, ns) == {e \in g.edges : e.src \notin ns /\ e.dst \notin ns}

\* the producers of A and B of the Mul m
Producers(g, m) == {e.src : e \in InEdges(g, m)}

\* C24: a loop iteration never writes dyn_map, and one that rewrites removes no
\* node but the matched Mul and SumReduce, leaves every other node's operator
\* as it was, and adds, removes or re-tracks no edge between two nodes outside
\* the match and the new nodes; in particular the producers of A and B keep
\* their other outgoing edges.
C24_RewriteFrame ==
    [][ /\ dyn_map' = dyn_map
        /\ (Iterated /\ NewEntry.act = "rewrite") =>
              /\ Ids(graph) \ Ids(graph') \subseteq Matched
              /\ \A n \in Ids(graph) \ Matched : graph'.nodes[n] = graph.nodes[n]
              /\ EdgesOutside(graph', Added) = EdgesOutside(graph, Matched)
              /\ \A p \in Producers(graph, NewEntry.mul) \ Matched :
                    /\ p \in Ids(graph')
                    /\ {e \in OutEdges(graph', p) : e.dst \notin Added}
                         = {e \in OutEdges(graph, p) : e.dst \notin Matched} ]_vars

\* a rewrite that copied an operand whose producer is still read, through the
\* same view, by a node outside the match
C24_Witness ==
    \E i \in Rewrites : \E c \in Copies(log[i]) : \E e \in InEdges(graph, c) :
        \E o \in OutEdges(graph, e.src) :
            /\ graph.nodes[o.dst].ty = "Exp"
            /\ log[i].mul \notin Ids(graph)
            /\ log[i].sum_reduce \notin Ids(graph)

\* a rewrite without a copy whose operands' producers are both still read
\* by nodes outside the match
C24_ReachUncopied ==
    \E i \in Rewrites :
        /\ Copies(log[i]) = {}
        /\ \A e \in InEdges(graph, log[i].matmul_op) :
              \E o \in OutEdges(graph, e.src) : graph.nodes[o.dst].ty = "Exp"

(***************************************************************************)
(* C25: termination of compile.                                             *)
(***************************************************************************)
\* start states with a shared Mul, shared operands, or two idioms of one kind
LiveInit ==
    \/ InitShared
    \/ InitFan
    \/ \E c \in RepCfgs, nd \in SUBSET {2, 3, 7, 8}, hs \in Handles({3, 8}) :
          Start(ParGraph(c, c), nd, nd \cap {3, 8}, hs)
    \/ \E c \in RepCfgs, nd \in SUBSET {2, 3, 5, 6}, hs \in Handles({3, 6}) :
          Start(ChainGraph(c, c), nd, nd \cap {3, 6}, hs)

\* compile is sequential code that keeps running: a loop whose condition can be
\* evaluated is evaluated, and a body that was entered runs to its end
LiveSpec == LiveInit /\ [][Next]_vars /\ WF_vars(Next)

\* the number of Mul -> SumReduce pairs in the graph compile was called on
StartPairs == IF log = <<>> THEN Cardinality(Pairs(graph)) ELSE log[1].pairs

\* the iterations of one loop
IterationsOf(loop) == {i \in 1..Len(log) : log[i].loop = loop}

\* compile has returned or panicked
Returned == pc \in {"done", "panic"}

\* the statement about iterations: a searcher yields a pair once; the pairs
\* of the graph never grow in number and a rewrite takes at least one away;
\* each loop iterates at most once per pair of the start graph, and a pair
\* the GEMV loop rewrote costs the GEMM loop no iteration
IterationsBounded ==
    /\ \A i, j \in 1..Len(log) :
          (i < j /\ log[i].s = log[j].s) =>
              <<log[i].mul, log[i].sum_reduce>> # <<log[j].mul, log[j].sum_reduce>>
    /\ \A i \in 1..Len(log) :
          /\ <<log[i].mul, log[i].sum_reduce>> \in ret[log[i].s]
          /\ i < Len(log) =>
                /\ log[i + 1].pairs <= log[i].pairs
                /\ log[i].act = "rewrite" => log[i + 1].pairs < log[i].pairs
    /\ Cardinality(Pairs(graph)) <= StartPairs - Cardinality(Rewrites)
    /\ Cardinality(IterationsOf("gemv")) <= StartPairs
    /\ Cardinality(IterationsOf("gemm")) + Cardinality(Rewrites \cap IterationsOf("gemv"))
          <= StartPairs

C25_ReachSkippedTwice ==
    /\ pc = "done"
    /\ \E i \in IterationsOf("gemv") \cap Skips : \E j \in IterationsOf("gemm") \cap Skips :
          <<log[i].mul, log[i].sum_reduce>> = <<log[j].mul, log[j].sum_reduce>>

(***************************************************************************)
(* The Function closures of the llama example: one call of a closure on    *)
(* the shapes of its inputs (inp[0].1.shape.shape()).                       *)
(***************************************************************************)
MaxBatch == 3

MaxSeq == 4

NEG_INFINITY == "-inf"

\* Llama::forward's input is GraphTensor<(Batch, CurSeq)>
AttnMaskCalls ==
    {[fn |-> "attn_mask", inp |-> << <<b, s>> >>] : b \in 1..MaxBatch, s \in 1..MaxSeq}

\* get_sincos' seq_tensor is GraphTensor<(Batch, NumHeads, Seq, Const<HEAD_DIM>)>
ArangeCalls ==
    {[fn |-> "arange", inp |-> << <<b, h, s, 2>> >>] :
        b \in 1..MaxBatch, h \in 1..2, s \in 1..MaxSeq}

\* the sequence length the tensor of the call is declared over (CurSeq, Seq)
SeqLen(c) == IF c.fn = "attn_mask" THEN c.inp[1][2] ELSE c.inp[1][3]

\* let seq_len = inp[0].1.shape.shape()[1]
attn_seq_len(c) == c.inp[1][2]

\* inp[0].1.shape.shape()[0]
arange_len(c) == c.inp[1][1]

\* vec![0.; seq_len]
AttnMaskVec(c) == [k \in 1..attn_seq_len(c) |-> 0]

\* the index data[i * seq_len + j] names
AttnMaskIndex(c, i, j) == i * attn_seq_len(c) + j

\* (0..n).map(|i| i as f32).collect()
ArangeVec(c) == [k \in 1..arange_len(c) |-> k - 1]

FnInit ==
    /\ Compiled
    /\ NoCall
    /\ \E c \in AttnMaskCalls \cup ArangeCalls :
          /\ fcall = c
          /\ fpc = "enter"
    /\ data = <<>>
    /\ it = <<0, 0>>
    /\ view = NewTracker(<<>>)

\* let mut data = vec![0.; seq_len]; the outer loop starts
AttnMaskAlloc ==
    /\ fcall.fn = "attn_mask"
    /\ fpc = "enter"
    /\ data' = AttnMaskVec(fcall)
    /\ it' = <<0, 0>>
    /\ fpc' = "fill"
    /\ UNCHANGED <<fcall, view, cvars, kvars>>

\* data[i * seq_len + j] = f32::NEG_INFINITY; an index outside data panics
AttnMaskWrite ==
    /\ fpc = "fill"
    /\ it[1] < attn_seq_len(fcall)
    /\ it[2] < it[1]
    /\ IF AttnMaskIndex(fcall, it[1], it[2]) < Len(data)
       THEN /\ data' = [data EXCEPT ![AttnMaskIndex(fcall, it[1], it[2]) + 1] = NEG_INFINITY]
            /\ it' = <<it[1], it[2] + 1>>
            /\ fpc' = fpc
       ELSE /\ fpc' = "panic"
            /\ UNCHANGED <<data, it>>
    /\ UNCHANGED <<fcall, view, cvars, kvars>>

\* for j in 0..i is exhausted: the next i
AttnMaskNextRow ==
    /\ fpc = "fill"
    /\ it[1] < attn_seq_len(fcall)
    /\ it[2] >= it[1]
    /\ it' = <<it[1] + 1, 0>>
    /\ UNCHANGED <<fcall, fpc, data, view, cvars, kvars>>

\* for i in 0..seq_len is exhausted; the closure returns data and
\* ShapeTracker::new(vec![shape()[1], shape()[1]])
AttnMaskReturn ==
    /\ fpc = "fill"
    /\ it[1] >= attn_seq_len(fcall)
    /\ view' = NewTracker(<<attn_seq_len(fcall), attn_seq_len(fcall)>>)
    /\ fpc' = "done"
    /\ UNCHANGED <<fcall, data, it, cvars, kvars>>

\* data: (0..shape()[0]).map(|i| i as f32).collect()
ArangeCollect ==
    /\ fcall.fn = "arange"
    /\ fpc = "enter"
    /\ data' = ArangeVec(fcall)
    /\ fpc' = "collected"
    /\ UNCHANGED <<fcall, it, view, cvars, kvars>>

\* the closure returns data and ShapeTracker::new(vec![shape()[0]])
ArangeReturn ==
    /\ fpc = "collected"
    /\ view' = NewTracker(<<arange_len(fcall)>>)
    /\ fpc' = "done"
    /\ UNCHANGED <<fcall, data, it, cvars, kvars>>

FnNext ==
    \/ AttnMaskAlloc
    \/ AttnMaskWrite
    \/ AttnMaskNextRow
    \/ AttnMaskReturn
    \/ ArangeCollect
    \/ ArangeReturn

FnSpec == FnInit /\ [][FnNext]_vars

(***************************************************************************)
(* C26: what a Function closure returns.                                    *)
(***************************************************************************)
\* the closure returned: as many elements as its tracker spans, which is the
\* square of the sequence length for the mask and the sequence length for arange
ReturnsItsShape ==
    fpc = "done" =>
        /\ Len(data) = Prod(shape(view))
        /\ Len(data) = IF fcall.fn = "attn_mask" THEN SeqLen(fcall) * SeqLen(fcall)
                                                 ELSE SeqLen(fcall)

\* C26: every write of a Function closure is inside the vector it allocated,
\* and the tensor it returns has as many elements as the product of the
\* dimensions of the tracker it returns: seq_len * seq_len for the attention
\* mask, seq_len for arange, for every seq_len >= 1.
C26_FunctionFillsItsShape == fpc # "panic" /\ ReturnsItsShape

\* what the closures do keep: a mask over one position and an arange whose
\* input has as many batches as positions are returned in full, and arange
\* always returns as many elements as its tracker spans
C26_ExceptLongerThanOne ==
    /\ (fcall.fn = "attn_mask" /\ SeqLen(fcall) = 1) => C26_FunctionFillsItsShape
    /\ (fcall.fn = "arange" /\ arange_len(fcall) = SeqLen(fcall)) => C26_FunctionFillsItsShape
    /\ (fcall.fn = "arange" /\ fpc = "done") => Len(data) = Prod(shape(view))

\* the mask closure stopped at a write outside its vector
C26_ReachOutOfBounds ==
    /\ fcall.fn = "attn_mask"
    /\ fpc = "panic"
    /\ AttnMaskIndex(fcall, it[1], it[2]) >= Len(data)

\* arange returned fewer elements than the sequence is long
C26_ReachShortArange ==
    /\ fcall.fn = "arange"
    /\ fpc = "done"
    /\ Len(data) < SeqLen(fcall)

====
